---------------------------- MODULE Spec2Model ----------------------------
(***************************************************************************)
(* Scraping and job-orchestration pipeline of world-of-books:              *)
(*   - withRetry / addJitter            (scraper.config)                   *)
(*   - ScraperService.trackJob          (scraper.service)                  *)
(*   - ScraperService.scrapeCategoryAllPages and the other top-level       *)
(*     scrape calls that run inside trackJob                               *)
(* Awaited calls are suspension points; each action below is the code      *)
(* between two of them.                                                    *)
(***************************************************************************)
EXTENDS Integers, Sequences, FiniteSets, TLC

VARIABLES
    retry,            \* withRetry's frame: arguments, loop counter, lastError, position
    opLog,            \* the wrapped operation's record of its invocations during the
                      \* withRetry call in progress (attempt, outcome, value or error)
    pc,               \* position of the top-level scrape call inside trackJob
    call,             \* arguments of the top-level scrape call in progress
    jobs,             \* the store's scrapeJob table
    jobId,            \* job.id returned by prisma.scrapeJob.create (0: none)
    result,           \* the value the wrapped action returned
    error,            \* the value caught by trackJob's catch block
    outcome,          \* how the top-level call ended: value returned or error thrown
    actionEnd,        \* how the wrapped action ended ("none", "returned", "threw")
    totalPages,       \* scrapeCategoryAllPages: let totalPages
    pagesToScrape,    \* scrapeCategoryAllPages: const pagesToScrape
    page,             \* scrapeCategoryAllPages: loop variable page
    allProducts,      \* scrapeCategoryAllPages: allProducts
    errors,           \* scrapeCategoryAllPages: errors
    pagesScraped,     \* scrapeCategoryAllPages: pagesScraped
    inflight,         \* pages whose page operation (pageCrawler.run) is running
    products,         \* the page operation's `const products`: the array, and what the
                      \* request handler of the attempt in progress extracted
    loaded,           \* pages for which a page operation has been started
    pageHist,         \* per page, in order: how its page operation ended for good
    cbLog,            \* onBatch invocations: products and {current, total}
    cbPending,        \* page whose onBatch promise is not settled yet (0: none)
    cbReturned,       \* pages whose onBatch promise has settled
    delayedAfter,     \* pages after which the inter-page sleep was taken
    robotsConsulted,  \* URLs robotsChecker.isAllowed has been called with
    tokensAcquired,   \* number of completed rateLimiter.acquire calls
    job,              \* per worker: job.data of its 'scrape-category' job
    handler,          \* handleScrapeCategory of worker 1: how far it is, its outcome
    hb,               \* per worker: the onBatch call it is in, with its transaction
    store,            \* Product rows committed to the database
    category,         \* Category rows: product_count, last_scraped_at
    cache,            \* Redis: per scrape-progress key its entry and remaining TTL
    isConnected,      \* CacheService.isConnected
    txLog,            \* per $transaction that ended: worker, batch, committed or not
    progressLog,      \* calls of cache.setScrapeProgress and whether Redis was written
    clearLog,         \* calls of cache.clearScrapeProgress and whether Redis was asked to delete
    response,         \* last answer of GET /categories/:slug/progress
    crashed,          \* the worker process died in the middle of a job
    now,              \* Date.now(), in ms since the module was loaded
    limiter,          \* rateLimiter: tokens and lastRefill
    acquires,         \* per rateLimiter.acquire call, in call order: its frame
    sleepers,         \* pending sleep(minDelayMs, maxDelayMs) timers: start time and how many
    returned,         \* number of rateLimiter.acquire calls that have returned
    probe,            \* a utility called on its own: its arguments and what it returned
    robots,           \* robotsChecker: rules per origin and lastFetch
    sleepMs           \* delay of the pending inter-page sleep(min, max) timer (0: none)

vars == <<retry, opLog, pc, call, jobs, jobId, result, error, outcome,
          actionEnd, totalPages, pagesToScrape, page, allProducts, errors,
          pagesScraped, inflight, products, loaded, pageHist, cbLog, cbPending,
          cbReturned, delayedAfter, robotsConsulted, tokensAcquired,
          job, handler, hb, store, category, cache, isConnected, txLog,
          progressLog, clearLog, response, crashed,
          now, limiter, acquires, sleepers, returned, probe, robots, sleepMs>>

retryVars == <<retry, opLog>>

crawlVars == <<pc, call, jobs, jobId, result, error, outcome, actionEnd,
               totalPages, pagesToScrape, page, allProducts, errors,
               pagesScraped, inflight, products, loaded, pageHist, cbLog, cbPending,
               cbReturned, delayedAfter>>

limiterVars == <<now, limiter, acquires, sleepers, returned>>

gateRest == <<robotsConsulted, tokensAcquired, limiterVars, probe, robots>>

gateVars == <<gateRest, sleepMs>>

dbVars == <<store, category, txLog>>

cacheVars == <<cache, isConnected, progressLog, clearLog>>

procVars == <<job, handler, hb, dbVars, cacheVars, response, crashed>>

---------------------------------------------------------------------------
(* Bounds of the model *)

MaxAttempts == 4        \* largest maxRetries argument tried on withRetry alone
RandDen == 4            \* Math.random() is sampled at k/RandDen, k in 0..RandDen-1
MaxDetected == 3        \* largest page count the detection load reports
MaxCap == 3             \* largest customMaxPages argument
MaxItems == 2           \* most records one page or one simple scrape yields

(* SCRAPER_CONFIG *)

maxPagesPerCategory == 3
maxRetries == 3
retryDelayMs == 1000
maxRetryDelayMs == 10000
jitterNum == 3          \* jitterFactor 0.3 = jitterNum / jitterDen
jitterDen == 10
requestDelayMin == 1500 \* requestDelayMs.min
requestDelayMax == 3000 \* requestDelayMs.max

BaseDelays == {retryDelayMs, 8 * retryDelayMs}

Min(a, b) == IF a <= b THEN a ELSE b
Max(a, b) == IF a >= b THEN a ELSE b

---------------------------------------------------------------------------
(* JavaScript values that are thrown.  isError: `v instanceof Error`;       *)
(* text: v.message for an Error, String(v) for any other value; id: object  *)
(* identity.                                                               *)

Undefined == [isError |-> FALSE, id |-> 0, text |-> "undefined"]

Thrown == { [isError |-> TRUE,  id |-> 1, text |-> "timeout"],
            [isError |-> TRUE,  id |-> 2, text |-> "net"],
            [isError |-> FALSE, id |-> 3, text |-> "net"] }

StoreError == [isError |-> TRUE, id |-> 4, text |-> "db"]

\* new Error(String(error)): a fresh Error object whose message is the string form
NewError(text) == [isError |-> TRUE, id |-> 5, text |-> text]

\* error instanceof Error ? error : new Error(String(error))
ToErrorKeep(e) == e
ToError(e) == IF e.isError THEN e ELSE NewError(e.text)

\* error instanceof Error ? error.message : String(error)
MessageOf(e) == e.text

---------------------------------------------------------------------------
(* addJitter and withRetry.  Delays are in units of 1/(jitterDen*RandDen)   *)
(* ms so that the jittered value stays an integer.                         *)

Unit == jitterDen * RandDen

Pow2(n) == IF n <= 0 THEN 1 ELSE 2 ^ n

\* sleep(minMs, maxMs): the delay handed to setTimeout, with Math.random() =
\* rnd / RandDen; maxMs ? Math.floor(Math.random() * (maxMs - minMs + 1)) + minMs : minMs
sleepFromZero(minMs, maxMs, rnd) ==
    IF maxMs # 0 THEN (rnd * (maxMs + 1)) \div RandDen ELSE minMs
sleep(minMs, maxMs, rnd) ==
    IF maxMs # 0 THEN ((rnd * (maxMs - minMs + 1)) \div RandDen) + minMs ELSE minMs

\* delay * jitterFactor * (Math.random() * 2 - 1), Math.max(0, delay + jitter)
addJitterOneSided(delay, rnd) ==
    Max(0, delay * Unit + delay * jitterNum * (2 * rnd))
addJitter(delay, rnd) ==
    Max(0, delay * Unit + delay * jitterNum * (2 * rnd - RandDen))

\* Math.min(baseDelay * Math.pow(2, attempt - 1), maxRetryDelayMs)
cappedDelayNoCap(baseDelay, attempt) == baseDelay * Pow2(attempt - 1)
cappedDelay(baseDelay, attempt) ==
    Min(baseDelay * Pow2(attempt - 1), maxRetryDelayMs)

\* entry of withRetry: lastError undefined, attempt = 1, loop test
withRetryEnter(n, baseDelay) ==
    [ maxRetries |-> n, baseDelay |-> baseDelay, attempt |-> 1,
      state |-> IF 1 <= n THEN "call" ELSE "threw",
      lastError |-> Undefined, value |-> <<>>, delay |-> 0, sleeps |-> 0 ]

\* fn() is invoked; withRetry awaits it
withRetryInvoke(r) == [r EXCEPT !.state = "await"]

\* return await fn()
withRetryResolve(r, v) == [r EXCEPT !.state = "returned", !.value = v]

\* catch (error): remember it, then back off or leave the loop and throw
withRetryRejectFirstError(r, e, rnd) ==
    LET le == IF r.lastError = Undefined THEN ToError(e) ELSE r.lastError IN
    IF r.attempt < r.maxRetries
    THEN [r EXCEPT !.lastError = le, !.state = "sleep",
                   !.delay = addJitter(cappedDelay(r.baseDelay, r.attempt), rnd)]
    ELSE [r EXCEPT !.lastError = le, !.state = "threw",
                   !.attempt = r.attempt + 1]
withRetryRejectOffByOne(r, e, rnd) ==
    IF r.attempt + 1 < r.maxRetries
    THEN [r EXCEPT !.lastError = ToError(e), !.state = "sleep",
                   !.delay = addJitter(cappedDelay(r.baseDelay, r.attempt), rnd)]
    ELSE [r EXCEPT !.lastError = ToError(e), !.state = "threw",
                   !.attempt = r.attempt + 1]
withRetryReject(r, e, rnd) ==
    IF r.attempt < r.maxRetries
    THEN [r EXCEPT !.lastError = ToError(e), !.state = "sleep",
                   !.delay = addJitter(cappedDelay(r.baseDelay, r.attempt), rnd)]
    ELSE [r EXCEPT !.lastError = ToError(e), !.state = "threw",
                   !.attempt = r.attempt + 1]

\* await sleep(delayWithJitter) is over: attempt++, loop test
withRetryWake(r) ==
    [r EXCEPT !.attempt = r.attempt + 1, !.sleeps = r.sleeps + 1, !.delay = 0,
              !.state = IF r.attempt + 1 <= r.maxRetries THEN "call" ELSE "threw"]


---------------------------------------------------------------------------
(* RateLimiter: a token bucket.  Time is in ms.  The token count is kept in  *)
(* units of 1/MinuteMs token, in which refillRate is maxTokens units per ms  *)
(* and every value the code computes on the grid of the clock is exact.      *)

maxRequestsPerMinute == 20
minDelayMs == 1500
maxDelayMs == 3000
MinuteMs == 60000

\* this.maxTokens = SCRAPER_CONFIG.rateLimit.maxRequestsPerMinute || 60
maxTokens == IF maxRequestsPerMinute # 0 THEN maxRequestsPerMinute ELSE 60

OneToken == MinuteMs

\* constructor(): a full bucket, lastRefill = Date.now()
RateLimiterNew == [tokens |-> maxTokens * OneToken, lastRefill |-> 0]

\* refill() at Date.now() = t
refill(l, t) ==
    [tokens |-> Min(maxTokens * OneToken, l.tokens + (t - l.lastRefill) * maxTokens),
     lastRefill |-> t]

Never == -1

\* variant of waitTime of a bucket that is never refilled: the timer never fires
waitTimeNoRefill(tokens) == Never

\* variant of waitTime that waits for half a token only
waitTimeHalf(tokens) == (OneToken - tokens) \div (2 * maxTokens)

\* const waitTime = (1 - this.tokens) / this.refillRate
waitTime(tokens) == (OneToken - tokens) \div maxTokens

---------------------------------------------------------------------------
(* RobotsTxtChecker: the rule cache *)

cacheMs == 3600000

Origins == {"A", "B"}

NoRules == [present |-> FALSE, allow |-> <<>>, disallow |-> <<>>]

\* rules = new Map(), lastFetch = 0; setAt notes when an origin's entry was set
RobotsNew ==
    [rules |-> [o \in Origins |-> NoRules], lastFetch |-> 0,
     setAt |-> [o \in Origins |-> 0]]

---------------------------------------------------------------------------
(* The queue worker's surroundings: job data, database rows, Redis cache    *)

Workers == {1, 2}

CategoryIds == {1, 2}

Slugs == {"a", "b"}

\* job.data: { url, categoryId, slug, maxPages? }
NoJob ==
    [url |-> "", categoryId |-> 0, slug |-> "", maxPagesGiven |-> FALSE, maxPages |-> 0]

\* url.split('/').pop()
LastSegment(url) ==
    CASE url = "/collections/a" -> "a"
      [] url = "/collections/b" -> "b"
      [] OTHER -> ""

\* slug || url.split('/').pop() || 'unknown'
TargetSlug(j) ==
    IF j.slug # "" THEN j.slug
    ELSE IF LastSegment(j.url) # "" THEN LastSegment(j.url) ELSE "unknown"

\* `scrape-progress:${slug}`
ProgressKey(slug) == <<"scrape-progress:", slug>>

CacheKeys == { ProgressKey(sl) : sl \in Slugs \cup {"unknown"} }

progressTtl == 60       \* seconds, client.setex(key, 60, data)

NoEntry == [present |-> FALSE, currentPage |-> 0, totalPages |-> 0, ttl |-> 0]

Null == [isNull |-> TRUE]

\* CacheService.setScrapeProgress; redisOk: client.setex resolves
setScrapeProgress(c, connected, redisOk, slug, cur, tot) ==
    IF ~connected THEN c
    ELSE IF redisOk
         THEN [c EXCEPT ![ProgressKey(slug)] =
                  [present |-> TRUE, currentPage |-> cur,
                   totalPages |-> tot, ttl |-> progressTtl]]
         ELSE c

\* CacheService.getScrapeProgress; redisOk: client.get resolves
getScrapeProgress(c, connected, redisOk, slug) ==
    IF ~connected THEN Null
    ELSE IF redisOk /\ c[ProgressKey(slug)].present
         THEN [isNull |-> FALSE,
               currentPage |-> c[ProgressKey(slug)].currentPage,
               totalPages |-> c[ProgressKey(slug)].totalPages]
         ELSE Null

\* CacheService.delete; redisOk: client.del resolves
delete(c, connected, redisOk, key) ==
    IF ~connected THEN c
    ELSE IF redisOk THEN [c EXCEPT ![key] = NoEntry] ELSE c

\* CacheService.clearScrapeProgress
clearScrapeProgress(c, connected, redisOk, slug) ==
    delete(c, connected, redisOk, ProgressKey(slug))

\* source_id of a scraped product (the last segment of its URL)
SourceIdOf(product) == product

\* the row tx.product.upsert creates; id: the row's own primary key
ProductRow(id, product, categoryId) ==
    [id |-> id, source_id |-> SourceIdOf(product), categoryId |-> categoryId]

SourceIds(rows) == { r.source_id : r \in rows }

\* tx.product.count({ where: { categoryId } }) over the rows a statement sees
CountRows(rows, categoryId) ==
    Cardinality({ r \in rows : r.categoryId = categoryId })

NoCategoryRows == [c \in CategoryIds |-> [product_count |-> 0, last_scraped_at |-> 0]]

\* an onBatch call that has not been made
IdleBatch ==
    [ state |-> "idle", products |-> <<>>, current |-> 0, total |-> 0,
      pos |-> 0, writes |-> {}, count |-> 0, catLock |-> FALSE ]

NoResponse == [asked |-> FALSE]

---------------------------------------------------------------------------
(* withRetry on its own: every maxRetries in 0..MaxAttempts, both base      *)
(* delays, and an operation that resolves or rejects freely on each call.   *)

RetryValues == { <<"v1">>, <<"v2">> }

LogEntry(p, attempt, ok, payload) ==
    [page |-> p, attempt |-> attempt, ok |-> ok, payload |-> payload]

\* const products: ScrapedProduct[] = []
NoProducts == [items |-> <<>>, extracted |-> <<>>, handled |-> FALSE]

NoCall ==
    [kind |-> "none", url |-> "", capGiven |-> FALSE, cap |-> 0, hasOnBatch |-> FALSE]

NoResult == [isArray |-> FALSE, none |-> TRUE]

NoOutcome == [how |-> "none", value |-> NoResult]

IdleCrawl ==
    /\ pc = "idle"
    /\ call = NoCall
    /\ jobs = <<>>
    /\ jobId = 0
    /\ result = NoResult
    /\ error = Undefined
    /\ outcome = NoOutcome
    /\ actionEnd = "none"
    /\ totalPages = 1
    /\ pagesToScrape = 0
    /\ page = 0
    /\ allProducts = <<>>
    /\ errors = <<>>
    /\ pagesScraped = 0
    /\ inflight = {}
    /\ products = NoProducts
    /\ loaded = {}
    /\ pageHist = <<>>
    /\ cbLog = <<>>
    /\ cbPending = 0
    /\ cbReturned = {}
    /\ delayedAfter = {}

IdleGate ==
    /\ robotsConsulted = {}
    /\ tokensAcquired = 0
    /\ now = 0
    /\ limiter = RateLimiterNew
    /\ acquires = <<>>
    /\ sleepers = {}
    /\ returned = 0
    /\ probe = [fn |-> "none"]
    /\ robots = RobotsNew
    /\ sleepMs = 0

IdleProc ==
    /\ job = [w \in Workers |-> NoJob]
    /\ handler = [state |-> "none", value |-> NoResult]
    /\ hb = [w \in Workers |-> IdleBatch]
    /\ store = {}
    /\ category = NoCategoryRows
    /\ txLog = <<>>
    /\ cache = [k \in CacheKeys |-> NoEntry]
    /\ isConnected = FALSE
    /\ progressLog = <<>>
    /\ clearLog = <<>>
    /\ response = NoResponse
    /\ crashed = FALSE

InitRetry ==
    /\ retry \in { withRetryEnter(n, b) : n \in 0..MaxAttempts, b \in BaseDelays }
    /\ opLog = <<>>
    /\ IdleCrawl
    /\ IdleGate
    /\ IdleProc

RetryInvoke ==
    /\ retry.state = "call"
    /\ retry' = withRetryInvoke(retry)
    /\ UNCHANGED <<opLog, crawlVars, gateVars, procVars>>

RetryOpResolves ==
    /\ retry.state = "await"
    /\ \E v \in RetryValues :
          /\ opLog' = Append(opLog, LogEntry(0, Len(opLog) + 1, TRUE, v))
          /\ retry' = withRetryResolve(retry, v)
    /\ UNCHANGED <<crawlVars, gateVars, procVars>>

RetryOpRejects ==
    /\ retry.state = "await"
    /\ \E e \in Thrown, rnd \in 0..(RandDen - 1) :
          /\ opLog' = Append(opLog, LogEntry(0, Len(opLog) + 1, FALSE, e))
          /\ retry' = withRetryReject(retry, e, rnd)
    /\ UNCHANGED <<crawlVars, gateVars, procVars>>

RetryWake ==
    /\ retry.state = "sleep"
    /\ retry' = withRetryWake(retry)
    /\ UNCHANGED <<opLog, crawlVars, gateVars, procVars>>

NextRetry == RetryInvoke \/ RetryOpResolves \/ RetryOpRejects \/ RetryWake

SpecRetry == InitRetry /\ [][NextRetry]_vars


---------------------------------------------------------------------------
(* Properties of withRetry, checked under SpecRetry *)

RetryEnded == retry.state \in {"returned", "threw"}

AllRejected == \A i \in 1..Len(opLog) : ~opLog[i].ok

\* C5 as stated: an operation that fails on every call is invoked exactly
\* maxAttempts times and withRetry then fails with the very error the last
\* attempt raised.
C5_ThrowsLastRaised ==
    (retry.state = "threw" /\ retry.maxRetries >= 1) =>
        /\ Len(opLog) = retry.maxRetries
        /\ AllRejected
        /\ retry.lastError = opLog[Len(opLog)].payload

\* C5 amended: the operation is invoked exactly maxAttempts times; withRetry
\* then fails with the last attempt's error when that is an Error object, and
\* with a new Error whose message is the string form of the value the last
\* attempt threw when it is not.
C5_ThrowsLastNormalised ==
    retry.state = "threw" =>
        /\ Len(opLog) = retry.maxRetries
        /\ AllRejected
        /\ retry.maxRetries >= 1 =>
              LET e == opLog[Len(opLog)].payload IN
              IF e.isError
              THEN retry.lastError = e
              ELSE /\ retry.lastError.isError
                   /\ retry.lastError.text = e.text
                   /\ \A t \in Thrown : retry.lastError.id # t.id

C5_Witness ==
    /\ retry.state = "threw"
    /\ retry.maxRetries >= 3
    /\ ~opLog[Len(opLog)].payload.isError
    /\ opLog[1].payload.text # opLog[Len(opLog)].payload.text

\* C6: withRetry fails only after maxAttempts failed attempts; when the
\* operation first succeeds on attempt k <= maxAttempts, withRetry returns that
\* attempt's value after exactly k invocations, and once it has returned or
\* thrown the operation is not invoked again.
C6_Ended ==
    /\ retry.state = "returned" =>
          LET k == Len(opLog) IN
          /\ k >= 1 /\ k <= retry.maxRetries
          /\ opLog[k].ok
          /\ \A i \in 1..(k - 1) : ~opLog[i].ok
          /\ retry.value = opLog[k].payload
    /\ retry.state = "threw" =>
          /\ Len(opLog) = retry.maxRetries
          /\ AllRejected

C6_ReturnsFirstSuccess ==
    /\ []C6_Ended
    /\ [][RetryEnded => (opLog' = opLog /\ retry' = retry)]_vars

C6_Witness ==
    /\ retry.state = "returned"
    /\ retry.maxRetries = 4
    /\ Len(opLog) = 3
    /\ retry.value = <<"v2">>

---------------------------------------------------------------------------
(* The top-level scrape calls.  Each runs its scrape action inside          *)
(* trackJob.                                                               *)

Kinds == { "scrapeNavigation", "scrapeCategory", "scrapeCategoryAllPages",
           "scrapeProductDetail" }

NAV_URL == "https://www.worldofbooks.com/en-gb"

Urls == { "/collections/a", "/collections/b" }

\* ScrapeTargetType passed to trackJob by each call
TargetType(kind) ==
    CASE kind = "scrapeNavigation" -> "NAVIGATION"
      [] kind = "scrapeProductDetail" -> "PRODUCT"
      [] OTHER -> "CATEGORY"

\* URL passed to trackJob by each call
TargetUrl(c) == IF c.kind = "scrapeNavigation" THEN NAV_URL ELSE c.url

\* page === 1 ? baseUrl : `${baseUrl}?page=${page}`
PageUrl(baseUrl, p) == IF p = 1 THEN <<baseUrl>> ELSE <<baseUrl, "?page=", p>>

\* prisma.scrapeJob.create({ data: { target_url, target_type, status: PENDING } })
\* (mutations counts the updates the store applied to the record)
NewJob(url, type) ==
    [ target_url |-> url, target_type |-> type, status |-> "PENDING",
      finished_at |-> FALSE, duration_ms |-> FALSE,
      items_found |-> <<>>, error_log |-> <<>>, mutations |-> 0 ]

ArrayOf(items) == [isArray |-> TRUE, items |-> items]

\* records of one page: n product cards that passed the title/source_url filter
PageRecords(p, n) == [i \in 1..n |-> <<p, i>>]

\* what the scrape action of a single-step call can return
SimpleResults(kind) ==
    IF kind = "scrapeProductDetail"
    THEN { [isArray |-> FALSE, description |-> "Description unavailable."] }
    ELSE { ArrayOf(PageRecords(0, n)) : n \in 0..MaxItems }

\* Array.isArray(result) ? result.length : 1
CountOfTotalItems(res) ==
    IF res.isArray THEN Len(res.items)
    ELSE IF "totalItems" \in DOMAIN res THEN res.totalItems ELSE 1
CountOf(res) == IF res.isArray THEN Len(res.items) ELSE 1

\* customMaxPages ?? SCRAPER_CONFIG.maxPagesPerCategory
MaxPagesOf(c) == IF c.capGiven THEN c.cap ELSE maxPagesPerCategory

\* maxPages > 0 ? Math.min(totalPages, maxPages) : totalPages
PagesToScrapeUncapped(total, maxPages) == total
PagesToScrape(total, maxPages) ==
    IF maxPages > 0 THEN Min(total, maxPages) ELSE total

\* `Page ${page} failed after ${maxRetries} retries: ${message}`
PageErrorMsg(p, e) == [page |-> p, retries |-> maxRetries, text |-> MessageOf(e)]

\* return { data: allProducts, pagesScraped, totalItems, errors }
ScrapeResultOfAttempted(data, scraped, errs) ==
    [ isArray |-> FALSE, data |-> data, pagesScraped |-> scraped + Len(errs),
      totalItems |-> Len(data), errors |-> errs ]
ScrapeResultOf(data, scraped, errs) ==
    [ isArray |-> FALSE, data |-> data, pagesScraped |-> scraped,
      totalItems |-> Len(data), errors |-> errs ]

IsAllPages == call.kind = "scrapeCategoryAllPages"

Init ==
    /\ retry = withRetryEnter(0, retryDelayMs)
    /\ opLog = <<>>
    /\ IdleCrawl
    /\ IdleGate
    /\ IdleProc

\* a caller invokes one of the four scrape methods (locals of
\* scrapeCategoryAllPages are initialised before trackJob is entered)
Invoke ==
    /\ pc = "idle"
    /\ \E k \in Kinds, u \in Urls, given \in BOOLEAN, cap \in 0..MaxCap, ob \in BOOLEAN :
          /\ k # "scrapeCategoryAllPages" => (~given /\ ~ob)
          /\ ~given => cap = 0
          /\ call' = [kind |-> k, url |-> u, capGiven |-> given, cap |-> cap,
                      hasOnBatch |-> ob]
    /\ pc' = "create"
    /\ totalPages' = 1
    /\ allProducts' = <<>>
    /\ errors' = <<>>
    /\ pagesScraped' = 0
    /\ UNCHANGED <<retry, opLog, jobs, jobId, result, error, outcome, actionEnd,
                   pagesToScrape, page, inflight, products, loaded, pageHist, cbLog,
                   cbPending, cbReturned, delayedAfter, gateVars, procVars>>

crawlLocals == <<totalPages, pagesToScrape, page, allProducts, errors,
                 pagesScraped, inflight, products, loaded, pageHist, cbLog, cbPending,
                 cbReturned, delayedAfter, retry, opLog>>

\* trackJob: await prisma.scrapeJob.create(...), outside the try block
CreateJob ==
    /\ pc = "create"
    /\ \/ /\ jobs' = Append(jobs, NewJob(TargetUrl(call), TargetType(call.kind)))
          /\ jobId' = Len(jobs) + 1
          /\ pc' = "action"
          /\ UNCHANGED outcome
       \/ /\ pc' = "done"
          /\ outcome' = [how |-> "threw", value |-> StoreError]
          /\ UNCHANGED <<jobs, jobId>>
    /\ UNCHANGED <<call, result, error, actionEnd, crawlLocals, gateVars, procVars>>

\* the scrape action of scrapeNavigation, scrapeCategory, scrapeProductDetail:
\* one crawler.run, then the collected value is returned
RunSimpleAction ==
    /\ pc = "action"
    /\ ~IsAllPages
    /\ \/ \E r \in SimpleResults(call.kind) :
             /\ result' = r
             /\ actionEnd' = "returned"
             /\ pc' = "updateCompleted"
             /\ UNCHANGED error
       \/ \E e \in Thrown :
             /\ error' = e
             /\ actionEnd' = "threw"
             /\ pc' = "updateFailed"
             /\ UNCHANGED result
    /\ UNCHANGED <<call, jobs, jobId, outcome, crawlLocals, gateVars, procVars>>


---------------------------------------------------------------------------
(* scrapeCategoryAllPages: the action passed to trackJob *)

trackVars == <<call, jobs, jobId, outcome>>

\* the for-loop test with page = p, given the values the step leaves in
\* allProducts, pagesScraped and errors: enter withRetry for page p, or leave
\* the loop and return the ScrapeResult
LoopTest(p, n, data, scraped, errs) ==
    /\ page' = p
    /\ IF p <= n
       THEN /\ retry' = withRetryEnter(maxRetries, retryDelayMs)
            /\ opLog' = <<>>
            /\ pc' = "retry"
            /\ UNCHANGED <<result, actionEnd>>
       ELSE /\ result' = ScrapeResultOf(data, scraped, errs)
            /\ actionEnd' = "returned"
            /\ pc' = "updateCompleted"
            /\ UNCHANGED <<retry, opLog>>

\* await crawler.run([baseUrl]) is started: the detection load of page 1
DetectStart ==
    /\ pc = "action"
    /\ IsAllPages
    /\ pc' = "detecting"
    /\ UNCHANGED <<trackVars, result, error, actionEnd, crawlLocals, gateVars, procVars>>

\* crawler.run([baseUrl]) resolves: the handler found a product-card selector
\* and stored detectTotalPages(page) in totalPages; then the page cap is
\* applied and the loop is entered with page = 1
DetectResolves ==
    /\ pc = "detecting"
    /\ \E t \in 1..MaxDetected :
          /\ totalPages' = t
          /\ pagesToScrape' = PagesToScrape(t, MaxPagesOf(call))
          /\ LoopTest(1, pagesToScrape', allProducts, pagesScraped, errors)
    /\ UNCHANGED <<trackVars, error, allProducts, errors, pagesScraped,
                   inflight, products, loaded, pageHist, cbLog, cbPending, cbReturned,
                   delayedAfter, gateVars, procVars>>

\* crawler.run([baseUrl]) resolves but no product-card selector matched (or the
\* handler gave up): totalPages keeps its initial value 1
DetectFindsNoCards ==
    /\ pc = "detecting"
    /\ pagesToScrape' = PagesToScrape(totalPages, MaxPagesOf(call))
    /\ LoopTest(1, pagesToScrape', allProducts, pagesScraped, errors)
    /\ UNCHANGED <<trackVars, error, totalPages, allProducts, errors,
                   pagesScraped, inflight, products, loaded, pageHist, cbLog, cbPending,
                   cbReturned, delayedAfter, gateVars, procVars>>

\* crawler.run([baseUrl]) rejects: nothing in the action catches it
DetectRejects ==
    /\ pc = "detecting"
    /\ \E e \in Thrown :
          /\ error' = e
          /\ actionEnd' = "threw"
          /\ pc' = "updateFailed"
    /\ UNCHANGED <<trackVars, result, crawlLocals, gateVars, procVars>>

\* the sequential discipline of the loop: the page operation of the loop's
\* current page is started by withRetry, inside the awaited loop body
MayStartPageOp == pc = "retry" /\ retry.state = "call"

\* variant of PageAttemptStart in which every page operation is tracked by a
\* job record of its own, as a call of scrapeCategory per page would be
PageAttemptStartTracked ==
    /\ MayStartPageOp
    /\ retry' = withRetryInvoke(retry)
    /\ inflight' = inflight \cup {page}
    /\ products' = NoProducts
    /\ loaded' = loaded \cup {page}
    /\ jobs' = Append(jobs, NewJob(PageUrl(call.url, page), "CATEGORY"))
    /\ UNCHANGED <<call, jobId, outcome, pc, result, error, actionEnd, opLog,
                   totalPages, pagesToScrape, page, allProducts, errors,
                   pagesScraped, pageHist, cbLog, cbPending, cbReturned,
                   delayedAfter, gateVars, procVars>>

\* withRetry invokes the page operation: a fresh products array and a
\* PlaywrightCrawler are built and pageCrawler.run([{url}]) starts loading
\* the page
PageAttemptStart ==
    /\ MayStartPageOp
    /\ retry' = withRetryInvoke(retry)
    /\ inflight' = inflight \cup {page}
    /\ products' = NoProducts
    /\ loaded' = loaded \cup {page}
    /\ UNCHANGED <<trackVars, pc, result, error, actionEnd, opLog, totalPages,
                   pagesToScrape, page, allProducts, errors, pagesScraped,
                   pageHist, cbLog, cbPending, cbReturned, delayedAfter, gateVars, procVars>>

\* the request handler of the attempt's crawler runs to its end:
\* products.push(...validProducts), nothing when no card selector matched
PageHandlerPushes ==
    /\ pc = "retry"
    /\ retry.state = "await"
    /\ ~products.handled
    /\ \E n \in 0..MaxItems :
          products' = [items |-> products.items \o PageRecords(page, n),
                       extracted |-> PageRecords(page, n), handled |-> TRUE]
    /\ UNCHANGED <<trackVars, pc, result, error, actionEnd, retry, opLog, totalPages,
                   pagesToScrape, page, allProducts, errors, pagesScraped,
                   inflight, loaded, pageHist, cbLog, cbPending, cbReturned,
                   delayedAfter, gateVars, procVars>>

\* pageCrawler.run resolves and the operation returns its products array
\* (empty when the handler pushed nothing or never ran to its end); the
\* operation's frame is gone.  pageHist notes what the handler of this attempt
\* extracted.
PageAttemptResolves ==
    /\ pc = "retry"
    /\ retry.state = "await"
    /\ opLog' = Append(opLog, LogEntry(page, Len(opLog) + 1, TRUE, products.extracted))
    /\ pageHist' = Append(pageHist, [page |-> page, ok |-> TRUE,
                                     records |-> products.extracted])
    /\ retry' = withRetryResolve(retry, products.items)
    /\ inflight' = inflight \ {page}
    /\ products' = NoProducts
    /\ UNCHANGED <<trackVars, pc, result, error, actionEnd, totalPages,
                   pagesToScrape, page, allProducts, errors, pagesScraped,
                   loaded, cbLog, cbPending, cbReturned, delayedAfter, gateVars, procVars>>

\* variant of PageAttemptRejects whose request handler pushes into allProducts
\* directly, so that the records of a rejected attempt stay in the result
PageAttemptRejectsKeepsRecords ==
    /\ pc = "retry"
    /\ retry.state = "await"
    /\ \E e \in Thrown, rnd \in 0..(RandDen - 1) :
          /\ opLog' = Append(opLog, LogEntry(page, Len(opLog) + 1, FALSE, e))
          /\ retry' = withRetryReject(retry, e, rnd)
          /\ pageHist' = IF Len(opLog') = maxRetries
                         THEN Append(pageHist, [page |-> page, ok |-> FALSE,
                                                records |-> <<>>])
                         ELSE pageHist
    /\ inflight' = inflight \ {page}
    /\ products' = [products EXCEPT !.extracted = <<>>, !.handled = FALSE]
    /\ allProducts' = allProducts \o products.items
    /\ UNCHANGED <<trackVars, pc, result, error, actionEnd, totalPages,
                   pagesToScrape, page, errors, pagesScraped,
                   loaded, cbLog, cbPending, cbReturned, delayedAfter, gateVars, procVars>>

\* pageCrawler.run rejects, before or after the handler pushed its records:
\* withRetry's catch block runs and the attempt's products array is left
\* behind with what it holds.  (pageHist notes the page as failed for good
\* when this was the maxRetries-th rejection.)
PageAttemptRejects ==
    /\ pc = "retry"
    /\ retry.state = "await"
    /\ \E e \in Thrown, rnd \in 0..(RandDen - 1) :
          /\ opLog' = Append(opLog, LogEntry(page, Len(opLog) + 1, FALSE, e))
          /\ retry' = withRetryReject(retry, e, rnd)
          /\ pageHist' = IF Len(opLog') = maxRetries
                         THEN Append(pageHist, [page |-> page, ok |-> FALSE,
                                                records |-> <<>>])
                         ELSE pageHist
    /\ inflight' = inflight \ {page}
    /\ products' = [products EXCEPT !.extracted = <<>>, !.handled = FALSE]
    /\ UNCHANGED <<trackVars, pc, result, error, actionEnd, totalPages,
                   pagesToScrape, page, allProducts, errors, pagesScraped,
                   loaded, cbLog, cbPending, cbReturned, delayedAfter, gateVars, procVars>>

\* withRetry's backoff sleep is over
PageBackoffWake ==
    /\ pc = "retry"
    /\ retry.state = "sleep"
    /\ retry' = withRetryWake(retry)
    /\ UNCHANGED <<trackVars, pc, result, error, actionEnd, opLog, totalPages,
                   pagesToScrape, page, allProducts, errors, pagesScraped,
                   inflight, products, loaded, pageHist, cbLog, cbPending, cbReturned,
                   delayedAfter, gateVars, procVars>>

\* variant of PageSucceeded that does not await the promise of onBatch
PageSucceededNoAwait ==
    /\ pc = "retry"
    /\ retry.state = "returned"
    /\ allProducts' = allProducts \o retry.value
    /\ pagesScraped' = pagesScraped + 1
    /\ pc' = "afterBatch"
    /\ IF call.hasOnBatch
       THEN /\ cbLog' = Append(cbLog, [products |-> retry.value, current |-> page,
                                       total |-> pagesToScrape])
            /\ cbPending' = page
       ELSE UNCHANGED <<cbLog, cbPending>>
    /\ UNCHANGED <<trackVars, result, error, actionEnd, retry, opLog, totalPages,
                   pagesToScrape, page, errors, inflight, products, loaded, pageHist,
                   cbReturned, delayedAfter, gateVars, procVars>>

\* withRetry returned pageProducts: push them, count the page, and call the
\* batch callback when one was passed
PageSucceeded ==
    /\ pc = "retry"
    /\ retry.state = "returned"
    /\ allProducts' = allProducts \o retry.value
    /\ pagesScraped' = pagesScraped + 1
    /\ IF call.hasOnBatch
       THEN /\ cbLog' = Append(cbLog, [products |-> retry.value, current |-> page,
                                       total |-> pagesToScrape])
            /\ cbPending' = page
            /\ pc' = "awaitBatch"
       ELSE /\ pc' = "afterBatch"
            /\ UNCHANGED <<cbLog, cbPending>>
    /\ UNCHANGED <<trackVars, result, error, actionEnd, retry, opLog, totalPages,
                   pagesToScrape, page, errors, inflight, products, loaded, pageHist,
                   cbReturned, delayedAfter, gateVars, procVars>>

\* the promise of onBatch settles; a rejection is logged and dropped by the
\* inner try/catch, so both outcomes resume the loop body at the same place
OnBatchSettles ==
    /\ cbPending # 0
    /\ \E rejected \in BOOLEAN :
          /\ cbReturned' = cbReturned \cup {cbPending}
          /\ cbPending' = 0
          /\ pc' = IF pc = "awaitBatch" THEN "afterBatch" ELSE pc
    /\ UNCHANGED <<trackVars, result, error, actionEnd, retry, opLog, totalPages,
                   pagesToScrape, page, allProducts, errors, pagesScraped,
                   inflight, products, loaded, pageHist, cbLog, delayedAfter, gateVars, procVars>>

\* if (page < pagesToScrape) await sleep(min, max): the sleep starts
InterPageSleep ==
    /\ pc = "afterBatch"
    /\ page < pagesToScrape
    /\ delayedAfter' = delayedAfter \cup {page}
    /\ \E rnd \in 0..(RandDen - 1) :
          sleepMs' = sleep(requestDelayMin, requestDelayMax, rnd)
    /\ pc' = "interPageSleep"
    /\ UNCHANGED <<trackVars, result, error, actionEnd, retry, opLog, totalPages,
                   pagesToScrape, page, allProducts, errors, pagesScraped,
                   inflight, products, loaded, pageHist, cbLog, cbPending, cbReturned,
                   gateRest, procVars>>

\* the inter-page sleep is over: page++
InterPageWake ==
    /\ pc = "interPageSleep"
    /\ sleepMs' = 0
    /\ LoopTest(page + 1, pagesToScrape, allProducts, pagesScraped, errors)
    /\ UNCHANGED <<trackVars, error, totalPages, pagesToScrape,
                   allProducts, errors, pagesScraped, inflight, products, loaded,
                   pageHist, cbLog, cbPending, cbReturned, delayedAfter, gateRest, procVars>>

\* the last page takes no sleep: page++ and the loop ends
LastPageDone ==
    /\ pc = "afterBatch"
    /\ ~(page < pagesToScrape)
    /\ LoopTest(page + 1, pagesToScrape, allProducts, pagesScraped, errors)
    /\ UNCHANGED <<trackVars, error, totalPages, pagesToScrape,
                   allProducts, errors, pagesScraped, inflight, products, loaded,
                   pageHist, cbLog, cbPending, cbReturned, delayedAfter, gateVars, procVars>>

\* variant of PageFailed whose catch block throws the page's error on
PageFailedRethrows ==
    /\ pc = "retry"
    /\ retry.state = "threw"
    /\ error' = retry.lastError
    /\ actionEnd' = "threw"
    /\ pc' = "updateFailed"
    /\ UNCHANGED <<trackVars, result, crawlLocals, gateVars, procVars>>

\* variant of PageFailed that also hands the failed page to the batch callback
PageFailedCallsBatch ==
    /\ pc = "retry"
    /\ retry.state = "threw"
    /\ products' = NoProducts
    /\ errors' = Append(errors, PageErrorMsg(page, retry.lastError))
    /\ cbLog' = IF call.hasOnBatch
                THEN Append(cbLog, [products |-> <<>>, current |-> page,
                                    total |-> pagesToScrape])
                ELSE cbLog
    /\ LoopTest(page + 1, pagesToScrape, allProducts, pagesScraped, errors')
    /\ UNCHANGED <<trackVars, error, totalPages, pagesToScrape,
                   allProducts, pagesScraped, inflight, loaded, pageHist,
                   cbPending, cbReturned, delayedAfter, gateVars, procVars>>

\* withRetry threw and its frames are gone: the loop body's catch records the
\* page error; page++
PageFailed ==
    /\ pc = "retry"
    /\ retry.state = "threw"
    /\ products' = NoProducts
    /\ errors' = Append(errors, PageErrorMsg(page, retry.lastError))
    /\ LoopTest(page + 1, pagesToScrape, allProducts, pagesScraped, errors')
    /\ UNCHANGED <<trackVars, error, totalPages, pagesToScrape,
                   allProducts, pagesScraped, inflight, loaded, pageHist,
                   cbLog, cbPending, cbReturned, delayedAfter, gateVars, procVars>>

---------------------------------------------------------------------------
(* trackJob after the action *)

\* prisma.scrapeJob.update({ where: { id }, data }) applied by the store
ApplyUpdate(tbl, id, data) ==
    [tbl EXCEPT ![id] = [@ EXCEPT !.status = data.status,
                                  !.finished_at = TRUE,
                                  !.duration_ms = TRUE,
                                  !.items_found = data.items_found,
                                  !.error_log = data.error_log,
                                  !.mutations = @ + 1]]

\* try: the action returned; count the items and await the COMPLETED update.
\* If the update rejects, the rejection is caught by the same try's catch.
UpdateCompleted ==
    /\ pc = "updateCompleted"
    /\ \/ /\ jobs' = ApplyUpdate(jobs, jobId,
                        [status |-> "COMPLETED", items_found |-> <<CountOf(result)>>,
                         error_log |-> jobs[jobId].error_log])
          /\ outcome' = [how |-> "returned", value |-> result]
          /\ pc' = "done"
          /\ UNCHANGED error
       \/ /\ error' = StoreError
          /\ pc' = "updateFailed"
          /\ UNCHANGED <<jobs, outcome>>
    /\ UNCHANGED <<call, jobId, result, actionEnd, crawlLocals, gateVars, procVars>>

\* catch (error): await the FAILED update, then throw error.  If the update
\* rejects, its rejection leaves trackJob instead.
UpdateFailed ==
    /\ pc = "updateFailed"
    /\ \/ /\ jobs' = ApplyUpdate(jobs, jobId,
                        [status |-> "FAILED", items_found |-> jobs[jobId].items_found,
                         error_log |-> <<MessageOf(error)>>])
          /\ outcome' = [how |-> "threw", value |-> error]
       \/ /\ outcome' = [how |-> "threw", value |-> StoreError]
          /\ UNCHANGED jobs
    /\ pc' = "done"
    /\ UNCHANGED <<call, jobId, result, error, actionEnd, crawlLocals, gateVars, procVars>>

Next ==
    \/ Invoke
    \/ CreateJob
    \/ RunSimpleAction
    \/ DetectStart
    \/ DetectResolves
    \/ DetectFindsNoCards
    \/ DetectRejects
    \/ PageAttemptStart
    \/ PageHandlerPushes
    \/ PageAttemptResolves
    \/ PageAttemptRejects
    \/ PageBackoffWake
    \/ PageSucceeded
    \/ OnBatchSettles
    \/ InterPageSleep
    \/ InterPageWake
    \/ LastPageDone
    \/ PageFailed
    \/ UpdateCompleted
    \/ UpdateFailed

Spec == Init /\ [][Next]_vars


---------------------------------------------------------------------------
(* Properties of the category crawl, checked under Spec *)

Detected == IsAllPages /\ pc \notin {"idle", "create", "action", "detecting"}

AllPagesOk == \A i \in 1..Len(pageHist) : pageHist[i].ok

FailedIdx == { i \in 1..Len(pageHist) : ~pageHist[i].ok }

RECURSIVE OkRecords(_)
OkRecords(h) ==
    IF h = <<>> THEN <<>>
    ELSE (IF Head(h).ok THEN Head(h).records ELSE <<>>) \o OkRecords(Tail(h))

C1_Cap == IF call.capGiven THEN call.cap ELSE maxPagesPerCategory

C1_N == Min(totalPages, C1_Cap)

C1_Pages ==
    (Detected /\ C1_Cap > 0) =>
        /\ loaded \subseteq 1..C1_N
        /\ inflight \subseteq loaded
        /\ \A p \in loaded : 1..p \subseteq loaded
        /\ actionEnd = "returned" =>
              /\ loaded = 1..C1_N
              /\ AllPagesOk =>
                    /\ result.pagesScraped = C1_N
                    /\ call.hasOnBatch =>
                          /\ Len(cbLog) = C1_N
                          /\ \A i \in 1..Len(cbLog) :
                                cbLog[i].current = i /\ cbLog[i].total = C1_N

\* C1: with detected total T and a positive cap M the crawl attempts exactly
\* the pages 1..min(T,M), in increasing order, and never loads a page above
\* min(T,M); when every page succeeds pagesScraped = min(T,M) and the batch
\* callback has been invoked min(T,M) times with current = 1, 2, ... and
\* total = min(T,M).
C1_PagesUpToCap ==
    /\ []C1_Pages
    /\ [][\A p \in inflight' \ inflight : \A q \in loaded : q <= p]_vars

C1_Witness ==
    /\ IsAllPages
    /\ actionEnd = "returned"
    /\ call.capGiven /\ call.cap = 2
    /\ totalPages = MaxDetected
    /\ AllPagesOk
    /\ result.pagesScraped = 2
    /\ Len(cbLog) = 2
    /\ 3 \notin loaded

\* C2: a page whose operation fails on every retry attempt does not abort the
\* crawl: every page 1..pagesToScrape is still taken to its end, errors holds
\* exactly one entry per such page, data holds the records of the succeeding
\* pages only, and the crawl hands back a ScrapeResult: once the page loop is
\* entered the action never throws, and the call can then only throw the
\* store's own error.
C2_PageFailureIsolated ==
    IsAllPages =>
        /\ actionEnd = "threw" => (pageHist = <<>> /\ loaded = {})
        /\ Len(errors) <= Cardinality(FailedIdx)
        /\ actionEnd = "returned" =>
              /\ Len(pageHist) = pagesToScrape
              /\ \A i \in 1..Len(pageHist) : pageHist[i].page = i
              /\ Len(result.errors) = Cardinality(FailedIdx)
              /\ { result.errors[j].page : j \in 1..Len(result.errors) }
                    = { pageHist[i].page : i \in FailedIdx }
              /\ result.data = OkRecords(pageHist)
              /\ result.pagesScraped = Len(pageHist) - Cardinality(FailedIdx)
        /\ outcome.how = "returned" => outcome.value = result
        /\ (outcome.how = "threw" /\ loaded # {}) => outcome.value = StoreError

C2_Witness ==
    /\ IsAllPages
    /\ outcome.how = "returned"
    /\ pagesToScrape = 3
    /\ FailedIdx = {2}
    /\ Len(outcome.value.errors) = 1
    /\ Len(pageHist[1].records) >= 1
    /\ Len(pageHist[3].records) >= 1
    /\ Len(outcome.value.data) = Len(pageHist[1].records) + Len(pageHist[3].records)

PageSettled(p) ==
    \E i \in 1..Len(pageHist) :
        /\ pageHist[i].page = p
        /\ (pageHist[i].ok /\ call.hasOnBatch) => p \in cbReturned

\* C3: at most one page operation is in flight at any time, and the page
\* operation of page q runs only when every page before q has succeeded (with
\* its batch callback settled) or exhausted its retries.
C3_OnePageInFlight ==
    /\ Cardinality(inflight) <= 1
    /\ \A q \in inflight :
          /\ cbPending = 0
          /\ \A p \in 1..(q - 1) : PageSettled(p)

C3_Witness ==
    /\ inflight = {3}
    /\ call.hasOnBatch
    /\ pageHist[1].ok /\ 1 \in cbReturned
    /\ ~pageHist[2].ok

\* C4: every page load happens only after the politeness gate admitted it:
\* robotsChecker.isAllowed was consulted for the page's URL and a token was
\* acquired from rateLimiter.
C4_GateBeforeLoad ==
    /\ pc = "detecting" =>
          (PageUrl(call.url, 1) \in robotsConsulted /\ tokensAcquired >= 1)
    /\ \A p \in inflight :
          (PageUrl(call.url, p) \in robotsConsulted /\ tokensAcquired >= 1)

---------------------------------------------------------------------------
(* Properties of trackJob, checked under Spec *)

Terminal == {"COMPLETED", "FAILED"}

\* C8: once trackJob is over, the job record it created has been mutated
\* exactly once and is COMPLETED or FAILED.
C8_MutatedExactlyOnce ==
    (pc = "done" /\ jobId # 0) =>
        /\ jobs[jobId].mutations = 1
        /\ jobs[jobId].status \in Terminal

\* C9: when the wrapped action threw e, the job record is FAILED with a
\* duration and error_log = e's message, and the caller receives e itself.
C9_FailedAndRethrown ==
    (pc = "done" /\ actionEnd = "threw") =>
        /\ jobs[jobId].status = "FAILED"
        /\ jobs[jobId].duration_ms
        /\ jobs[jobId].error_log = <<error.text>>
        /\ outcome = [how |-> "threw", value |-> error]

C10_ExpectedType ==
    IF call.kind = "scrapeNavigation" THEN "NAVIGATION"
    ELSE IF call.kind = "scrapeProductDetail" THEN "PRODUCT" ELSE "CATEGORY"

C10_ExpectedUrl == IF call.kind = "scrapeNavigation" THEN NAV_URL ELSE call.url

\* C10: the job record exists with status PENDING and the call's target URL
\* and type before and while the action runs; the update made on success sets
\* COMPLETED with items_found = length of the result when it is an array and 1
\* otherwise.
C10_PendingThenCompleted ==
    /\ pc \in {"action", "detecting", "retry", "awaitBatch", "afterBatch",
               "interPageSleep"} =>
          /\ jobId = Len(jobs) /\ jobId # 0
          /\ jobs[jobId] = [ target_url |-> C10_ExpectedUrl,
                             target_type |-> C10_ExpectedType,
                             status |-> "PENDING", finished_at |-> FALSE,
                             duration_ms |-> FALSE, items_found |-> <<>>,
                             error_log |-> <<>>, mutations |-> 0 ]
    /\ (jobId # 0 /\ jobs[jobId].status = "COMPLETED") =>
          /\ actionEnd = "returned"
          /\ jobs[jobId].duration_ms
          /\ jobs[jobId].target_url = C10_ExpectedUrl
          /\ jobs[jobId].items_found =
                <<IF result.isArray THEN Len(result.items) ELSE 1>>
    /\ (pc = "done" /\ actionEnd = "returned" /\ error = Undefined) =>
          jobs[jobId].status = "COMPLETED"
    /\ outcome.how = "returned" => jobs[jobId].status = "COMPLETED"

C10_Witness ==
    /\ IsAllPages
    /\ outcome.how = "returned"
    /\ jobs[jobId].status = "COMPLETED"
    /\ jobs[jobId].items_found = <<1>>
    /\ outcome.value.totalItems >= 3

---------------------------------------------------------------------------
(* Job records and batch callback invocations, checked under Spec *)

Running == {"action", "detecting", "retry", "awaitBatch", "afterBatch",
            "interPageSleep", "updateCompleted", "updateFailed"}

CreateRejected == pc = "done" /\ jobId = 0

C11_Count ==
    /\ pc \in {"idle", "create"} => Len(jobs) = 0
    /\ pc \in Running => Len(jobs) = 1
    /\ pc = "done" => Len(jobs) = (IF CreateRejected THEN 0 ELSE 1)

\* C11: a top-level scrape invocation creates exactly one job record (none
\* only when the store rejects the create call itself), and it does so in
\* trackJob before the action runs: no page operation, retry or callback of
\* scrapeCategoryAllPages adds a job record.
C11_OneJobRecord ==
    /\ []C11_Count
    /\ [][Len(jobs') # Len(jobs) => (pc = "create" /\ Len(jobs') = Len(jobs) + 1)]_vars

C11_Witness ==
    /\ pc = "done"
    /\ IsAllPages
    /\ loaded = 1..3
    /\ Len(errors) >= 1
    /\ pagesScraped >= 1
    /\ Len(jobs) = 1

OkPages == { pageHist[i].page : i \in { j \in 1..Len(pageHist) : pageHist[j].ok } }

CallbackPages == { cbLog[i].current : i \in 1..Len(cbLog) }

C12_OncePerPage ==
    /\ ~call.hasOnBatch => cbLog = <<>>
    /\ CallbackPages \subseteq OkPages
    /\ \A i, j \in 1..Len(cbLog) : i < j => cbLog[i].current < cbLog[j].current
    /\ \A i \in 1..Len(cbLog) : \A j \in 1..Len(pageHist) :
          pageHist[j].page = cbLog[i].current =>
              cbLog[i].products = pageHist[j].records
    /\ (actionEnd = "returned" /\ call.hasOnBatch) => CallbackPages = OkPages

\* C12 as stated: the batch callback is invoked exactly once per successfully
\* scraped page, never for a page that failed all retries, and every
\* invocation carries a non-empty product set.
C12_OncePerPageNonEmpty ==
    /\ C12_OncePerPage
    /\ \A i \in 1..Len(cbLog) : cbLog[i].products # <<>>

\* C12 amended: the batch callback is invoked exactly once per successfully
\* scraped page, with that page's products, and never for a page that failed
\* all retries; a page that succeeded with no products is handed over too,
\* with an empty product set.
C12_OncePerSucceededPage == C12_OncePerPage

C12_Witness ==
    /\ IsAllPages /\ call.hasOnBatch
    /\ actionEnd = "returned"
    /\ Len(pageHist) = 3
    /\ ~pageHist[1].ok
    /\ pageHist[2].ok /\ pageHist[2].records = <<>>
    /\ pageHist[3].ok /\ pageHist[3].records # <<>>
    /\ Len(cbLog) = 2
    /\ cbLog[1].products = <<>>

---------------------------------------------------------------------------
(* The inter-page delay, checked under Spec *)

PageOk(p) == \E i \in 1..Len(pageHist) : pageHist[i].page = p /\ pageHist[i].ok

C33_Delays ==
    IsAllPages =>
        /\ delayedAfter \subseteq OkPages
        /\ pagesToScrape \notin delayedAfter
        /\ \A p \in loaded : (p > 1 /\ PageOk(p - 1)) => (p - 1) \in delayedAfter
        /\ pc = "interPageSleep" =>
              /\ sleepMs \in requestDelayMin..requestDelayMax
              /\ page \in delayedAfter
              /\ (page + 1) \notin loaded
        /\ pc # "interPageSleep" => sleepMs = 0

\* C33: after each successfully scraped page that is not the last one the crawl
\* sleeps a random delay within [requestDelayMs.min, requestDelayMs.max]
\* before the next page is loaded, and no delay follows the last page: no page
\* operation starts while the timer is pending.
C33_InterPageDelay ==
    /\ []C33_Delays
    /\ [][sleepMs # 0 => loaded' = loaded]_vars

C33_Witness ==
    /\ IsAllPages
    /\ pc = "interPageSleep"
    /\ pagesToScrape = 3
    /\ page = 2
    /\ delayedAfter = {1, 2}
    /\ sleepMs > requestDelayMin

---------------------------------------------------------------------------
(* The job record's status, checked under Spec *)

ActionExecuting == {"action", "detecting", "retry", "awaitBatch", "afterBatch",
                    "interPageSleep"}

StatusOf(tbl, id) == IF id \in 1..Len(tbl) THEN tbl[id].status ELSE "none"

\* C34: the job record's status follows PENDING -> RUNNING -> COMPLETED |
\* FAILED: the record is RUNNING while the scrape action executes, and a
\* record becomes COMPLETED or FAILED only from RUNNING.
C34_Lifecycle ==
    /\ [](pc \in ActionExecuting => StatusOf(jobs, jobId) = "RUNNING")
    /\ [][(StatusOf(jobs', jobId') \in Terminal /\ StatusOf(jobs, jobId) \notin Terminal)
             => StatusOf(jobs, jobId) = "RUNNING"]_vars

\* C37: whenever the wrapped action returned, trackJob hands that result to
\* its caller and the job record ends COMPLETED and is never FAILED, whatever
\* the store's update calls do.
C37_SuccessStaysCompleted ==
    actionEnd = "returned" =>
        /\ StatusOf(jobs, jobId) # "FAILED"
        /\ pc = "done" =>
              /\ outcome = [how |-> "returned", value |-> result]
              /\ StatusOf(jobs, jobId) = "COMPLETED"

---------------------------------------------------------------------------
(* The ScrapeResult of scrapeCategoryAllPages, checked under Spec *)

\* C35: when scrapeCategoryAllPages returns, pagesScraped + errors.length is
\* the number of pages it set out to scrape, pagesScraped does not exceed that
\* number, and totalItems is the length of data.
C35_ResultAccounting ==
    (IsAllPages /\ actionEnd = "returned") =>
        /\ result.pagesScraped + Len(result.errors) = pagesToScrape
        /\ result.pagesScraped <= pagesToScrape
        /\ result.totalItems = Len(result.data)
        /\ outcome.how = "returned" => outcome.value = result

C35_Witness ==
    /\ IsAllPages
    /\ outcome.how = "returned"
    /\ pagesToScrape = 3
    /\ outcome.value.pagesScraped = 1
    /\ Len(outcome.value.errors) = 2
    /\ outcome.value.totalItems = 2

NoDuplicates(list) == \A i, j \in 1..Len(list) : i # j => list[i] # list[j]

Elems(list) == { list[i] : i \in 1..Len(list) }

\* pages whose page operation has returned and whose records have been pushed
CountedPages == { p \in OkPages : p < page \/ pc # "retry" }

RECURSIVE RecordsOfPages(_, _)
RecordsOfPages(h, pages) ==
    IF h = <<>> THEN <<>>
    ELSE (IF Head(h).ok /\ Head(h).page \in pages THEN Head(h).records ELSE <<>>)
             \o RecordsOfPages(Tail(h), pages)

\* C36: data holds, for each successfully scraped page, exactly the records its
\* successful attempt extracted: what an attempt extracted before it failed is
\* never added, so a retry brings neither duplicates nor partial records.
C36_OnlySuccessfulAttempts ==
    IsAllPages =>
        /\ allProducts = RecordsOfPages(pageHist, CountedPages)
        /\ NoDuplicates(allProducts)
        /\ \A r \in Elems(allProducts) : PageOk(r[1])
        /\ actionEnd = "returned" =>
              /\ result.data = allProducts
              /\ CountedPages = OkPages

C36_Witness ==
    /\ IsAllPages
    /\ pc = "retry" /\ retry.state = "sleep"
    /\ page = 2
    /\ Len(opLog) = 2
    /\ products.items = PageRecords(2, MaxItems)
    /\ allProducts = PageRecords(1, 1)

---------------------------------------------------------------------------
(* Termination of a top-level call.  Every await of the call settles: a    *)
(* page load returns or fails, a timer fires, a store call resolves or     *)
(* rejects, the batch callback's promise settles.                          *)

SpecSettling == Init /\ [][Next]_vars /\ WF_vars(Next)

\* page operations started so far by the withRetry call in progress
StartedHere ==
    IF retry.state = "call" THEN retry.attempt - 1 ELSE Min(retry.attempt, maxRetries)

\* most page loads the crawl can still start, once the page loop is entered
LoadsLeft ==
    CASE pc = "retry" ->
            (pagesToScrape - page) * maxRetries + (maxRetries - StartedHere)
      [] pc \in {"awaitBatch", "afterBatch", "interPageSleep"} ->
            (pagesToScrape - page) * maxRetries
      [] OTHER -> 0

LoadStarts == inflight' # inflight /\ inflight' # {}

C39_Budget ==
    Detected =>
        /\ LoadsLeft >= 0
        /\ pc = "retry" => (page \in 1..pagesToScrape /\ StartedHere <= maxRetries)
        /\ (pc = "retry" /\ page = 1 /\ StartedHere = 0) =>
              LoadsLeft = pagesToScrape * maxRetries

\* C39: every category crawl terminates: it starts one detection load, then
\* at most maxRetries loads for each of its N pages (every load lowers
\* LoadsLeft, which starts at N * maxRetries and never rises or falls below
\* 0), reaches its final result, and its job record reaches a terminal status.
C39_TerminatesWithTerminalStatus ==
    /\ []C39_Budget
    /\ [][(Detected /\ Detected') =>
             LoadsLeft' <= LoadsLeft - (IF LoadStarts THEN 1 ELSE 0)]_vars
    /\ (pc = "action" /\ IsAllPages)
          ~> (pc = "done" /\ StatusOf(jobs, jobId) \in Terminal)

\* the crawl's part of C39, without the job record's status
C39_CrawlTerminates ==
    /\ []C39_Budget
    /\ [][(Detected /\ Detected') =>
             LoadsLeft' <= LoadsLeft - (IF LoadStarts THEN 1 ELSE 0)]_vars
    /\ (pc = "action" /\ IsAllPages) ~> (pc = "done")

---------------------------------------------------------------------------
(* ScraperProcessor: the onBatch handler of handleScrapeCategory.  The     *)
(* interactive $transaction runs at the database's default isolation       *)
(* (PostgreSQL: read committed): a statement sees the committed rows and   *)
(* the transaction's own writes; a write waits for a concurrent            *)
(* transaction that holds the same row; a rejected statement rolls the     *)
(* whole transaction back.                                                 *)

MaxBatchLen == 2        \* most products in a batch handed to onBatch directly

BatchProducts == { <<1, 1>>, <<1, 2>> }

RECURSIVE SeqsUpTo(_, _)
SeqsUpTo(S, n) ==
    IF n = 0 THEN { <<>> }
    ELSE LET shorter == SeqsUpTo(S, n - 1) IN
         shorter \cup { Append(q, x) : q \in { t \in shorter : Len(t) = n - 1 }, x \in S }

Batches == SeqsUpTo(BatchProducts, MaxBatchLen)

CategoryUrl(c) == IF c = 1 THEN "/collections/a" ELSE "/collections/b"

CategorySlug(c) == IF c = 1 THEN "a" ELSE "b"

\* the job data the categories controller queues for category c
JobOf(c, slugGiven, given, maxPages) ==
    [ url |-> CategoryUrl(c), categoryId |-> c,
      slug |-> IF slugGiven THEN CategorySlug(c) ELSE "",
      maxPagesGiven |-> given, maxPages |-> maxPages ]

\* Product rows that exist before the job
InitStores ==
    { {},
      { [id |-> <<0, 0, 1>>, source_id |-> <<1, 1>>, categoryId |-> 1] },
      { [id |-> <<0, 0, 1>>, source_id |-> <<1, 1>>, categoryId |-> 2] } }

CategoryRowsOf(rows) ==
    [c \in CategoryIds |-> [product_count |-> CountRows(rows, c), last_scraped_at |-> 0]]

OtherWrites(w) == UNION { hb[v].writes : v \in Workers \ {w} }

\* catch (err) of onBatch after the transaction rejected: the database has
\* rolled the transaction back; the error is logged and onBatch returns
TxFailsKeepsRows(w) ==
    /\ hb' = [hb EXCEPT ![w].state = "settled", ![w].writes = {}, ![w].catLock = FALSE]
    /\ txLog' = Append(txLog, [w |-> w, products |-> hb[w].products,
                               current |-> hb[w].current, committed |-> FALSE,
                               wrote |-> hb[w].writes # {}])
    /\ store' = store \cup hb[w].writes
    /\ UNCHANGED <<category, cacheVars>>
TxFailsWritesProgress(w) ==
    /\ hb' = [hb EXCEPT ![w].state = "settled", ![w].writes = {}, ![w].catLock = FALSE]
    /\ txLog' = Append(txLog, [w |-> w, products |-> hb[w].products,
                               current |-> hb[w].current, committed |-> FALSE,
                               wrote |-> hb[w].writes # {}])
    /\ cache' = setScrapeProgress(cache, isConnected, TRUE, TargetSlug(job[w]),
                                  hb[w].current, hb[w].total)
    /\ progressLog' = Append(progressLog,
                             [w |-> w, key |-> ProgressKey(TargetSlug(job[w])),
                              current |-> hb[w].current, total |-> hb[w].total,
                              written |-> isConnected, txs |-> Len(txLog')])
    /\ UNCHANGED <<store, category, isConnected, clearLog>>
TxFails(w) ==
    /\ hb' = [hb EXCEPT ![w].state = "settled", ![w].writes = {}, ![w].catLock = FALSE]
    /\ txLog' = Append(txLog, [w |-> w, products |-> hb[w].products,
                               current |-> hb[w].current, committed |-> FALSE,
                               wrote |-> hb[w].writes # {}])
    /\ UNCHANGED <<store, category, cacheVars>>

batchRest == <<retryVars, crawlVars, gateVars, job, handler, response, crashed>>

\* onBatch is entered: if (products.length === 0) return; else the
\* transaction begins
OnBatch(w) ==
    /\ hb[w].state = "called"
    /\ hb' = [hb EXCEPT ![w].state = IF Len(hb[w].products) = 0 THEN "settled" ELSE "upsert",
                        ![w].pos = 1]
    /\ UNCHANGED <<dbVars, cacheVars, batchRest>>

\* variant of UpsertRow that inserts a row whatever rows exist
InsertRow(w, seen, product) ==
    { ProductRow(<<w, hb[w].current, hb[w].pos>>, product, job[w].categoryId) }

\* the row tx.product.upsert adds, given the rows the statement sees: none
\* when a row with this source_id exists (it is updated in place)
UpsertRow(w, seen, product) ==
    IF SourceIdOf(product) \in SourceIds(seen)
    THEN {}
    ELSE { ProductRow(<<w, hb[w].current, hb[w].pos>>, product, job[w].categoryId) }

\* one round of the for loop: await tx.product.upsert({ where: { source_id } })
TxUpsert(w) ==
    /\ hb[w].state = "upsert"
    /\ LET product == hb[w].products[hb[w].pos] IN
       \/ /\ SourceIdOf(product) \notin SourceIds(OtherWrites(w))
          /\ hb' = [hb EXCEPT
                ![w].writes = @ \cup UpsertRow(w, store \cup hb[w].writes, product),
                ![w].pos = @ + 1,
                ![w].state = IF hb[w].pos + 1 > Len(hb[w].products)
                             THEN "count" ELSE "upsert"]
          /\ UNCHANGED <<dbVars, cacheVars>>
       \/ TxFails(w)
    /\ UNCHANGED batchRest

\* const count = await tx.product.count({ where: { categoryId } })
TxCount(w) ==
    /\ hb[w].state = "count"
    /\ \/ /\ hb' = [hb EXCEPT
                ![w].count = CountRows(store \cup hb[w].writes, job[w].categoryId),
                ![w].state = "update"]
          /\ UNCHANGED <<dbVars, cacheVars>>
       \/ TxFails(w)
    /\ UNCHANGED batchRest

\* await tx.category.update({ where: { id: categoryId }, data: { product_count: count, ... } })
TxCategoryUpdate(w) ==
    /\ hb[w].state = "update"
    /\ \/ /\ \A v \in Workers \ {w} :
                ~(hb[v].catLock /\ job[v].categoryId = job[w].categoryId)
          /\ hb' = [hb EXCEPT ![w].catLock = TRUE, ![w].state = "commit"]
          /\ UNCHANGED <<dbVars, cacheVars>>
       \/ TxFails(w)
    /\ UNCHANGED batchRest

\* the transaction callback returned: the database commits
TxCommit(w) ==
    /\ hb[w].state = "commit"
    /\ \/ /\ store' = store \cup hb[w].writes
          /\ category' = [category EXCEPT ![job[w].categoryId] =
                            [product_count |-> hb[w].count,
                             last_scraped_at |-> @.last_scraped_at + 1]]
          /\ txLog' = Append(txLog, [w |-> w, products |-> hb[w].products,
                                     current |-> hb[w].current, committed |-> TRUE,
                                     wrote |-> hb[w].writes # {}])
          /\ hb' = [hb EXCEPT ![w].state = "progress", ![w].writes = {},
                              ![w].catLock = FALSE]
          /\ UNCHANGED cacheVars
       \/ TxFails(w)
    /\ UNCHANGED batchRest

\* variant of OnBatchSetProgress in which a snapshot that cannot be written
\* undoes the batch
OnBatchSetProgressStrict(w) ==
    /\ hb[w].state = "progress"
    /\ \E redisOk \in BOOLEAN :
          /\ cache' = setScrapeProgress(cache, isConnected, redisOk,
                                        TargetSlug(job[w]), hb[w].current, hb[w].total)
          /\ progressLog' = Append(progressLog,
                [w |-> w, key |-> ProgressKey(TargetSlug(job[w])),
                 current |-> hb[w].current, total |-> hb[w].total,
                 written |-> (isConnected /\ redisOk), txs |-> Len(txLog)])
          /\ store' = IF isConnected /\ redisOk THEN store
                      ELSE { r \in store : ~(r.id[1] = w /\ r.id[2] = hb[w].current) }
    /\ hb' = [hb EXCEPT ![w].state = "settled"]
    /\ UNCHANGED <<category, txLog, isConnected, clearLog, batchRest>>

\* await this.cache.setScrapeProgress(targetSlug, progress.current, progress.total)
OnBatchSetProgress(w) ==
    /\ hb[w].state = "progress"
    /\ \E redisOk \in BOOLEAN :
          /\ cache' = setScrapeProgress(cache, isConnected, redisOk,
                                        TargetSlug(job[w]), hb[w].current, hb[w].total)
          /\ progressLog' = Append(progressLog,
                [w |-> w, key |-> ProgressKey(TargetSlug(job[w])),
                 current |-> hb[w].current, total |-> hb[w].total,
                 written |-> (isConnected /\ redisOk), txs |-> Len(txLog)])
    /\ hb' = [hb EXCEPT ![w].state = "settled"]
    /\ UNCHANGED <<dbVars, isConnected, clearLog, batchRest>>

\* client.on('connect')
RedisConnect ==
    /\ ~isConnected
    /\ isConnected' = TRUE
    /\ UNCHANGED <<retryVars, crawlVars, gateVars, job, handler, hb, dbVars,
                   cache, progressLog, clearLog, response, crashed>>

\* client.on('error')
RedisError ==
    /\ isConnected
    /\ isConnected' = FALSE
    /\ UNCHANGED <<retryVars, crawlVars, gateVars, job, handler, hb, dbVars,
                   cache, progressLog, clearLog, response, crashed>>

---------------------------------------------------------------------------
(* The batch handler on its own: two workers, each handed one batch for its *)
(* category, over a database that already holds some rows.                  *)

InitBatch ==
    /\ retry = withRetryEnter(0, retryDelayMs)
    /\ opLog = <<>>
    /\ IdleCrawl
    /\ IdleGate
    /\ job \in [Workers -> { JobOf(c, sg, FALSE, 0) : c \in CategoryIds, sg \in BOOLEAN }]
    /\ job[1].categoryId = 1
    /\ job[2].slug # ""
    /\ handler = [state |-> "none", value |-> NoResult]
    /\ hb = [w \in Workers |-> IdleBatch]
    /\ store \in InitStores
    /\ category = CategoryRowsOf(store)
    /\ txLog = <<>>
    /\ cache = [k \in CacheKeys |-> NoEntry]
    /\ isConnected = FALSE
    /\ progressLog = <<>>
    /\ clearLog = <<>>
    /\ response = NoResponse
    /\ crashed = FALSE

\* scrapeCategoryAllPages hands a page's products to the worker's onBatch
BatchInvoke(w) ==
    /\ hb[w].state = "idle"
    /\ \E b \in Batches :
          hb' = [hb EXCEPT ![w].state = "called", ![w].products = b,
                           ![w].current = w, ![w].total = 2]
    /\ UNCHANGED <<dbVars, cacheVars, batchRest>>

NextBatch ==
    \/ \E w \in Workers : BatchInvoke(w)
    \/ \E w \in Workers : OnBatch(w)
    \/ \E w \in Workers : TxUpsert(w)
    \/ \E w \in Workers : TxCount(w)
    \/ \E w \in Workers : TxCategoryUpdate(w)
    \/ \E w \in Workers : TxCommit(w)
    \/ \E w \in Workers : OnBatchSetProgress(w)
    \/ RedisConnect
    \/ RedisError

SpecBatch == InitBatch /\ [][NextBatch]_vars

---------------------------------------------------------------------------
(* ScraperProcessor.handleScrapeCategory: worker 1 picks up a job and runs  *)
(* the whole crawl with its onBatch handler.                                *)

\* job.data.maxPages of the jobs worker 1 is given
JobMaxPages == {1, 2}

InitWorker ==
    /\ retry = withRetryEnter(0, retryDelayMs)
    /\ opLog = <<>>
    /\ IdleCrawl
    /\ IdleGate
    /\ \E sg \in BOOLEAN, mp \in JobMaxPages :
          job = [w \in Workers |-> IF w = 1 THEN JobOf(1, sg, TRUE, mp) ELSE NoJob]
    /\ handler = [state |-> "none", value |-> NoResult]
    /\ hb = [w \in Workers |-> IdleBatch]
    /\ store \in InitStores
    /\ category = CategoryRowsOf(store)
    /\ txLog = <<>>
    /\ cache = [k \in CacheKeys |-> NoEntry]
    /\ isConnected = FALSE
    /\ progressLog = <<>>
    /\ clearLog = <<>>
    /\ response = NoResponse
    /\ crashed = FALSE

\* handleScrapeCategory starts: onBatch is defined and
\* this.scraper.scrapeCategoryAllPages(url, onBatch, maxPages) is called
HandleScrapeCategory ==
    /\ handler.state = "none"
    /\ pc = "idle"
    /\ job[1] # NoJob
    /\ handler' = [handler EXCEPT !.state = "running"]
    /\ call' = [kind |-> "scrapeCategoryAllPages", url |-> job[1].url,
                capGiven |-> job[1].maxPagesGiven, cap |-> job[1].maxPages,
                hasOnBatch |-> TRUE]
    /\ pc' = "create"
    /\ totalPages' = 1
    /\ allProducts' = <<>>
    /\ errors' = <<>>
    /\ pagesScraped' = 0
    /\ UNCHANGED <<retry, opLog, jobs, jobId, result, error, outcome, actionEnd,
                   pagesToScrape, page, inflight, products, loaded, pageHist, cbLog,
                   cbPending, cbReturned, delayedAfter, gateVars, job, hb,
                   dbVars, cacheVars, response, crashed>>

\* the crawl's `await onBatch(pageProducts, { current: page, total })` enters
\* the worker's handler
CrawlCallsOnBatch ==
    /\ pc = "awaitBatch"
    /\ cbPending # 0
    /\ handler.state = "running"
    /\ hb[1].state = "idle"
    /\ hb' = [hb EXCEPT ![1] = [IdleBatch EXCEPT
                  !.state = "called",
                  !.products = cbLog[Len(cbLog)].products,
                  !.current = cbLog[Len(cbLog)].current,
                  !.total = cbLog[Len(cbLog)].total]]
    /\ UNCHANGED <<dbVars, cacheVars, batchRest>>

\* variant of OnBatchReturns in which a batch whose transaction failed makes
\* the crawl's action throw
OnBatchReturnsAborting ==
    /\ pc = "awaitBatch"
    /\ hb[1].state = "settled"
    /\ hb' = [hb EXCEPT ![1] = IdleBatch]
    /\ cbReturned' = cbReturned \cup {cbPending}
    /\ cbPending' = 0
    /\ IF txLog # <<>> /\ ~txLog[Len(txLog)].committed
          /\ txLog[Len(txLog)].current = cbPending
       THEN /\ error' = StoreError
            /\ actionEnd' = "threw"
            /\ pc' = "updateFailed"
       ELSE /\ pc' = "afterBatch"
            /\ UNCHANGED <<error, actionEnd>>
    /\ UNCHANGED <<trackVars, result, retry, opLog, totalPages,
                   pagesToScrape, page, allProducts, errors, pagesScraped,
                   inflight, products, loaded, pageHist, cbLog, delayedAfter, gateVars,
                   job, handler, dbVars, cacheVars, response, crashed>>

\* the promise of the worker's onBatch resolves (its own catch has swallowed
\* any failure) and the crawl's loop body goes on
OnBatchReturns ==
    /\ pc = "awaitBatch"
    /\ hb[1].state = "settled"
    /\ hb' = [hb EXCEPT ![1] = IdleBatch]
    /\ cbReturned' = cbReturned \cup {cbPending}
    /\ cbPending' = 0
    /\ pc' = "afterBatch"
    /\ UNCHANGED <<trackVars, result, error, actionEnd, retry, opLog, totalPages,
                   pagesToScrape, page, allProducts, errors, pagesScraped,
                   inflight, products, loaded, pageHist, cbLog, delayedAfter, gateVars,
                   job, handler, dbVars, cacheVars, response, crashed>>

\* what handleScrapeCategory returns
JobResultOf(res) ==
    [ success |-> TRUE, productsFound |-> Len(res.data),
      pagesScraped |-> res.pagesScraped, errors |-> res.errors ]

\* scrapeCategoryAllPages returned: clear the progress key, return the summary
HandleReturns ==
    /\ handler.state = "running"
    /\ pc = "done"
    /\ outcome.how = "returned"
    /\ \E redisOk \in BOOLEAN :
          /\ cache' = clearScrapeProgress(cache, isConnected, redisOk, TargetSlug(job[1]))
          /\ clearLog' = Append(clearLog, [key |-> ProgressKey(TargetSlug(job[1])),
                                           deleted |-> (isConnected /\ redisOk)])
    /\ handler' = [state |-> "returned", value |-> JobResultOf(outcome.value)]
    /\ UNCHANGED <<retryVars, crawlVars, gateVars, job, hb, dbVars, isConnected,
                   progressLog, response, crashed>>

\* catch (error) of handleScrapeCategory: log and throw error
HandleCatches ==
    /\ handler.state = "running"
    /\ pc = "done"
    /\ outcome.how = "threw"
    /\ handler' = [state |-> "threw", value |-> outcome.value]
    /\ UNCHANGED <<retryVars, crawlVars, gateVars, job, hb, dbVars, cacheVars,
                   response, crashed>>

NextWorker ==
    \/ HandleScrapeCategory
    \/ CreateJob
    \/ DetectStart
    \/ DetectResolves
    \/ DetectFindsNoCards
    \/ DetectRejects
    \/ PageAttemptStart
    \/ PageHandlerPushes
    \/ PageAttemptResolves
    \/ PageAttemptRejects
    \/ PageBackoffWake
    \/ PageSucceeded
    \/ CrawlCallsOnBatch
    \/ OnBatch(1)
    \/ TxUpsert(1)
    \/ TxCount(1)
    \/ TxCategoryUpdate(1)
    \/ TxCommit(1)
    \/ OnBatchSetProgress(1)
    \/ OnBatchReturns
    \/ InterPageSleep
    \/ InterPageWake
    \/ LastPageDone
    \/ PageFailed
    \/ UpdateCompleted
    \/ UpdateFailed
    \/ HandleReturns
    \/ HandleCatches
    \/ RedisConnect
    \/ RedisError

SpecWorker == InitWorker /\ [][NextWorker]_vars

---------------------------------------------------------------------------
(* Properties of the batch handler, checked under SpecBatch *)

Committed == { i \in 1..Len(txLog) : txLog[i].committed }

RolledBack == { i \in 1..Len(txLog) : ~txLog[i].committed }

BatchIds(batch) == { SourceIdOf(batch[i]) : i \in 1..Len(batch) }

\* the rows that were there before any batch
RowsBefore == { r \in store : r.id[1] = 0 }

CommitsFor(c) == { i \in Committed : job[txLog[i].w].categoryId = c }

C14_State ==
    /\ \A r \in store \ RowsBefore : \E i \in Committed : txLog[i].w = r.id[1]
    /\ \A i \in RolledBack : \A r \in store : r.id[1] # txLog[i].w
    /\ \A w \in Workers : hb[w].writes \cap store = {}
    /\ \A i \in Committed : BatchIds(txLog[i].products) \subseteq SourceIds(store)
    /\ \A c \in CategoryIds :
          /\ category[c].last_scraped_at = Cardinality(CommitsFor(c))
          /\ CommitsFor(c) = {} => category[c] = CategoryRowsOf(RowsBefore)[c]

\* C14: the upserts of a batch, the count and the category update are
\* all-or-nothing: the step in which a batch's transaction fails (at an
\* upsert, at the count, at the category update or at the commit) leaves the
\* Product rows and the Category rows as they were, no row written by a
\* failed transaction is ever persisted, and a committed one has persisted
\* every product of its batch together with the category update.
C14_AllOrNothing ==
    /\ []C14_State
    /\ [][(Len(txLog') > Len(txLog) /\ ~txLog'[Len(txLog')].committed)
              => (store' = store /\ category' = category)]_vars

C14_Witness ==
    \E i \in RolledBack :
        /\ txLog[i].wrote
        /\ Len(txLog[i].products) = 2
        /\ BatchIds(txLog[i].products) \cap SourceIds(store) = {}
        /\ category[job[txLog[i].w].categoryId] = [product_count |-> 0, last_scraped_at |-> 0]

C15_State ==
    /\ Cardinality(store) = Cardinality(SourceIds(store))
    /\ SourceIds(store) =
          SourceIds(RowsBefore) \cup UNION { BatchIds(txLog[i].products) : i \in Committed }

\* C15: products are upserted by source_id, so applying a batch whose
\* products are all persisted already (a replay) leaves the Product rows as
\* they are: the persisted set is the union of the committed batches and the
\* rows from before, one row per source_id however often a batch is applied.
C15_ReplayIdempotent ==
    /\ []C15_State
    /\ [][\A w \in Workers :
             (hb[w].state = "commit" /\ hb'[w].state = "progress"
                 /\ BatchIds(hb[w].products) \subseteq SourceIds(store))
             => store' = store]_vars

C15_Witness ==
    /\ Len(txLog) = 2
    /\ Committed = {1, 2}
    /\ txLog[1].w # txLog[2].w
    /\ txLog[1].products = txLog[2].products
    /\ Len(txLog[1].products) = 2
    /\ job[1].categoryId = job[2].categoryId
    /\ RowsBefore = {}
    /\ Cardinality(store) = Cardinality(BatchIds(txLog[1].products))
    /\ \A w \in Workers : hb[w].state = "settled"

\* C16: right after a worker's batch has committed, the category's stored
\* product_count equals the number of Product rows persisted for that
\* category, also when another worker commits batches for the same category
\* concurrently.
C16_CountMatchesRows ==
    \A w \in Workers :
        hb[w].state = "progress" =>
            category[job[w].categoryId].product_count
                = CountRows(store, job[w].categoryId)

CallsOf(w) == { i \in 1..Len(progressLog) : progressLog[i].w = w }

HasCommitted(w) == \E i \in Committed : txLog[i].w = w

\* C17 as stated: every committed batch has its progress snapshot written to
\* the cache, exactly once and after the commit.
C17_SnapshotPerCommit ==
    \A w \in Workers :
        (hb[w].state = "settled" /\ HasCommitted(w)) =>
            Cardinality({ i \in CallsOf(w) : progressLog[i].written }) = 1

C17_Calls ==
    /\ \A w \in Workers :
          Cardinality(CallsOf(w)) =
              (IF hb[w].state = "settled" /\ HasCommitted(w) THEN 1 ELSE 0)
    /\ \A i \in 1..Len(progressLog) :
          LET e == progressLog[i] IN
          /\ \E k \in Committed : k <= e.txs /\ txLog[k].w = e.w
                                  /\ txLog[k].current = e.current
          /\ e.key = ProgressKey(TargetSlug(job[e.w]))
          /\ job[e.w].slug # "" => e.key = ProgressKey(job[e.w].slug)
    /\ \A k \in CacheKeys :
          cache[k].present =>
              \E i \in 1..Len(progressLog) :
                  /\ progressLog[i].written /\ progressLog[i].key = k
                  /\ cache[k].currentPage = progressLog[i].current
                  /\ cache[k].totalPages = progressLog[i].total

\* C17 amended: cache.setScrapeProgress is called with the batch's {current,
\* total} exactly once per committed batch, after the commit, keyed by the
\* job's slug (by the last segment of its URL when the slug is empty), and
\* never for a batch whose transaction failed or that was empty; the snapshot
\* reaches the cache only when the cache is connected and accepts the write,
\* and nothing else writes a snapshot.
C17_ProgressCallPerCommit ==
    /\ []C17_Calls
    /\ [][(cache' # cache) =>
             (isConnected /\ Len(progressLog') = Len(progressLog) + 1
                 /\ progressLog'[Len(progressLog')].written)]_vars

C17_Witness ==
    /\ \A w \in Workers : hb[w].state = "settled"
    /\ Len(txLog) = 2
    /\ txLog[1].committed /\ ~txLog[2].committed
    /\ Len(progressLog) = 1
    /\ progressLog[1].written
    /\ progressLog[1].w = txLog[1].w
    /\ cache[progressLog[1].key].present

---------------------------------------------------------------------------
(* Properties of handleScrapeCategory, checked under SpecWorker *)

Finished == handler.state \in {"returned", "threw"}

FailedBatchPages == { txLog[i].current : i \in RolledBack }

C13_State ==
    /\ FailedBatchPages \subseteq OkPages
    /\ actionEnd = "threw" => txLog = <<>>
    /\ actionEnd = "returned" =>
          /\ Len(pageHist) = pagesToScrape
          /\ result.pagesScraped = Cardinality(OkPages)
          /\ result.data = OkRecords(pageHist)
          /\ Len(result.errors) = Cardinality(FailedIdx)
    /\ (jobId # 0 /\ jobs[jobId].status = "FAILED") =>
          (actionEnd = "threw" \/ error = StoreError)
    /\ handler.state = "threw" => outcome.how = "threw"
    /\ (handler.state = "threw" /\ txLog # <<>>) => handler.value = StoreError

\* C13: a batch whose persistence fails is swallowed: the step in which the
\* transaction fails changes nothing of the crawl, the crawl goes on to the
\* next page, the page counts in pagesScraped, its records are in the final
\* data, no error entry is made for it, and neither the job record nor the
\* queue job fails because of it (they fail only when the detection load
\* rejects or the job store rejects an update).
C13_BatchFailureSwallowed ==
    /\ []C13_State
    /\ [][(Len(txLog') > Len(txLog) /\ ~txLog'[Len(txLog')].committed)
              => UNCHANGED <<crawlVars, retryVars>>]_vars
    /\ [][(pc = "awaitBatch" /\ pc' # pc) => pc' = "afterBatch"]_vars

C13_Witness ==
    /\ handler.state = "returned"
    /\ Len(txLog) = 2
    /\ ~txLog[1].committed /\ txLog[1].current = 1
    /\ txLog[2].committed /\ txLog[2].current = 2
    /\ handler.value.pagesScraped = 2
    /\ handler.value.productsFound = Len(txLog[1].products) + Len(txLog[2].products)
    /\ handler.value.errors = <<>>
    /\ jobs[jobId].status = "COMPLETED"

\* C18: when handleScrapeCategory has finished, by returning or by throwing,
\* it has called cache.clearScrapeProgress for the category's progress key.
C18_ProgressKeyCleared ==
    Finished =>
        \E i \in 1..Len(clearLog) : clearLog[i].key = ProgressKey(TargetSlug(job[1]))

C20_State ==
    /\ SourceIds(store) =
          SourceIds(RowsBefore) \cup UNION { BatchIds(txLog[i].products) : i \in Committed }
    /\ category[1].last_scraped_at = Cardinality(Committed)
    /\ (Committed # {} /\ hb[1].catLock = FALSE /\ hb[1].state # "commit") =>
          category[1].product_count = CountRows(store, 1)
    /\ handler.state = "returned" =>
          /\ outcome.how = "returned"
          /\ handler.value = [ success |-> TRUE,
                               productsFound |-> Len(OkRecords(pageHist)),
                               pagesScraped |-> Cardinality(OkPages),
                               errors |-> result.errors ]
    /\ handler.state = "threw" =>
          /\ outcome.how = "threw"
          /\ handler.value = outcome.value
          /\ handler.value \in Thrown \cup {StoreError}
    /\ (handler.state = "running" /\ pc = "done") => Len(clearLog) = 0
    /\ (pc = "done" /\ outcome.how = "returned") =>
          \A i \in 1..Len(cbLog) :
              cbLog[i].products # <<>> =>
                  \E k \in 1..Len(txLog) : txLog[k].current = cbLog[i].current

\* C20: the cache takes no part in the crawl's outcome: the persisted
\* products and the category counts are determined by the batches whose
\* transactions committed, the job's return value by the page outcomes, and a
\* thrown error always comes from the crawl or the store; a step that calls
\* the cache (connected, disconnected or failing) or in which the connection
\* changes leaves the database, the job records and the crawl's data as they
\* are, and always lets the handler go on.
C20_CacheIndependent ==
    /\ []C20_State
    /\ [][(progressLog' # progressLog \/ clearLog' # clearLog
              \/ isConnected' # isConnected \/ cache' # cache)
             => UNCHANGED <<store, category, txLog, jobs, result, error, outcome,
                            allProducts, errors, pagesScraped, pageHist>>]_vars
    /\ [][(clearLog' # clearLog) => handler'.state = "returned"]_vars

C20_Witness ==
    /\ handler.state = "returned"
    /\ ~isConnected
    /\ Cardinality(Committed) = 2
    /\ Len(progressLog) = 2
    /\ \A i \in 1..Len(progressLog) : ~progressLog[i].written
    /\ Len(clearLog) = 1 /\ ~clearLog[1].deleted
    /\ handler.value.productsFound >= 2
    /\ Cardinality(store) >= 2
    /\ category[1].product_count = CountRows(store, 1)

---------------------------------------------------------------------------
(* The progress snapshot over time: worker 1 writes a snapshot per committed *)
(* batch and clears the key at the end, or dies on the way; Redis counts the *)
(* TTL down; GET /categories/:slug/progress is asked at any moment.          *)

TickSecs == 20          \* seconds that pass in one step of the clock

SlugCategory(sl) == IF sl = "a" THEN 1 ELSE 2

InitProgress ==
    /\ retry = withRetryEnter(0, retryDelayMs)
    /\ opLog = <<>>
    /\ IdleCrawl
    /\ IdleGate
    /\ job = [w \in Workers |-> IF w = 1 THEN JobOf(1, TRUE, FALSE, 0) ELSE NoJob]
    /\ handler = [state |-> "running", value |-> NoResult]
    /\ hb = [w \in Workers |-> IdleBatch]
    /\ store \in InitStores
    /\ category = CategoryRowsOf(store)
    /\ txLog = <<>>
    /\ cache = [k \in CacheKeys |-> NoEntry]
    /\ isConnected = FALSE
    /\ progressLog = <<>>
    /\ clearLog = <<>>
    /\ response = NoResponse
    /\ crashed = FALSE

progressRest == <<retryVars, crawlVars, gateVars, job, dbVars>>

\* the transaction of the job's next page has committed (pages 1..maxPagesPerCategory)
ProgressBatchCommitted ==
    /\ handler.state = "running"
    /\ hb[1].state = "idle"
    /\ Len(progressLog) < maxPagesPerCategory
    /\ hb' = [hb EXCEPT ![1].state = "progress",
                        ![1].current = Len(progressLog) + 1,
                        ![1].total = maxPagesPerCategory]
    /\ UNCHANGED <<progressRest, cacheVars, handler, response, crashed>>

\* onBatch returned to the crawl
ProgressBatchDone ==
    /\ handler.state = "running"
    /\ hb[1].state = "settled"
    /\ hb' = [hb EXCEPT ![1] = IdleBatch]
    /\ UNCHANGED <<progressRest, cacheVars, handler, response, crashed>>

\* the crawl returned: await this.cache.clearScrapeProgress(targetSlug)
ProgressJobReturns ==
    /\ handler.state = "running"
    /\ hb[1].state = "idle"
    /\ \E redisOk \in BOOLEAN :
          /\ cache' = clearScrapeProgress(cache, isConnected, redisOk, TargetSlug(job[1]))
          /\ clearLog' = Append(clearLog, [key |-> ProgressKey(TargetSlug(job[1])),
                                           deleted |-> (isConnected /\ redisOk)])
    /\ handler' = [handler EXCEPT !.state = "returned"]
    /\ UNCHANGED <<progressRest, hb, isConnected, progressLog, response, crashed>>

\* the worker process dies in the middle of the job: nothing of it runs again
WorkerCrash ==
    /\ handler.state = "running"
    /\ handler' = [handler EXCEPT !.state = "crashed"]
    /\ hb' = [hb EXCEPT ![1] = IdleBatch]
    /\ crashed' = TRUE
    /\ UNCHANGED <<progressRest, cacheVars, response>>

\* variant of Expire in which keys never expire
ExpireNever(e, secs) == e

\* Redis counts the TTL of a key set by setex down and drops the key at 0
Expire(e, secs) ==
    IF e.present /\ e.ttl > secs THEN [e EXCEPT !.ttl = e.ttl - secs] ELSE NoEntry

\* TickSecs seconds pass
Tick ==
    /\ \E k \in CacheKeys : cache[k].present
    /\ cache' = [k \in CacheKeys |-> Expire(cache[k], TickSecs)]
    /\ UNCHANGED <<progressRest, hb, handler, isConnected, progressLog, clearLog,
                   response, crashed>>

\* return { active: !!progress, productsCount, ...progress }  (existed,
\* connected, redisOk note the circumstances of the request)
ProgressAnswer(sl, redisOk, count) ==
    [ asked |-> TRUE, slug |-> sl,
      active |-> (getScrapeProgress(cache, isConnected, redisOk, sl) # Null),
      productsCount |-> count,
      progress |-> getScrapeProgress(cache, isConnected, redisOk, sl),
      existed |-> cache[ProgressKey(sl)].present,
      connected |-> isConnected, redisOk |-> redisOk ]

\* GET /categories/:slug/progress
GetCategoryProgress ==
    /\ \E sl \in Slugs, redisOk \in BOOLEAN :
          response' = ProgressAnswer(sl, redisOk, CountRows(store, SlugCategory(sl)))
    /\ UNCHANGED <<progressRest, hb, handler, cacheVars, crashed>>

NextProgress ==
    \/ ProgressBatchCommitted
    \/ OnBatchSetProgress(1)
    \/ ProgressBatchDone
    \/ ProgressJobReturns
    \/ WorkerCrash
    \/ Tick
    \/ RedisConnect
    \/ RedisError
    \/ GetCategoryProgress

SpecProgress == InitProgress /\ [][NextProgress]_vars /\ WF_vars(Tick)

---------------------------------------------------------------------------
(* Properties of the progress endpoint, checked under SpecProgress *)

SnapshotExists == \E k \in CacheKeys : cache[k].present

\* C19 as stated: the progress endpoint reports active = true exactly when a
\* non-expired progress snapshot exists for the category.
C19_ActiveIffSnapshot ==
    response.asked => (response.active <=> response.existed)

C19_Answer ==
    /\ response.asked =>
          /\ response.active <=>
                (response.existed /\ response.connected /\ response.redisOk)
          /\ response.active <=> (response.progress # Null)
    /\ \A k \in CacheKeys :
          cache[k].present => (cache[k].ttl > 0 /\ cache[k].ttl <= progressTtl)

\* C19 amended: the endpoint reports active = true exactly when a non-expired
\* snapshot exists for the category and the cache is connected and answers
\* the read; every snapshot expires at most 60 seconds after it was written,
\* so after a worker died without clearing its snapshot the snapshot
\* eventually is gone for good and every later answer is active = false.
C19_ActiveWhileSnapshotReadable ==
    /\ []C19_Answer
    /\ (crashed ~> ~SnapshotExists)
    /\ [][(crashed /\ ~SnapshotExists) => ~SnapshotExists']_vars
    /\ [][(response' # response /\ ~SnapshotExists) => ~response'.active]_vars

C19_Witness ==
    /\ crashed
    /\ Len(progressLog) >= 1
    /\ progressLog[Len(progressLog)].written
    /\ ~SnapshotExists
    /\ response.asked /\ response.slug = "a" /\ ~response.active
    /\ response.connected /\ response.redisOk

---------------------------------------------------------------------------
(* The rate limiter on its own: callers issue rateLimiter.acquire() at any   *)
(* instant of the clock, several of them between two ticks if they like.     *)

MaxCalls == 22          \* number of acquire calls issued in one behaviour
MaxIssueTicks == 1      \* calls are issued during the first MaxIssueTicks ticks

TickMs == minDelayMs

SleepTimes(s) == { e.at : e \in s }

AddSleeper(s, t) ==
    IF t \in SleepTimes(s)
    THEN { IF e.at = t THEN [e EXCEPT !.n = @ + 1] ELSE e : e \in s }
    ELSE s \cup { [at |-> t, n |-> 1] }

DropSleeper(s, t) ==
    { IF e.at = t THEN [e EXCEPT !.n = @ - 1] ELSE e :
         e \in { x \in s : x.at # t \/ x.n > 1 } }

\* a timer set for instant t has run out
Due(t) == t # Never /\ t <= now

TokenWaiters == { i \in 1..Len(acquires) : acquires[i].state = "tokenWait" }

TimerPending ==
    \/ sleepers # {}
    \/ \E i \in TokenWaiters : acquires[i].wakeAt # Never

\* sleep(minDelayMs, maxDelayMs) started at instant t may have run out: its
\* delay is Math.floor(Math.random() * (maxDelayMs - minDelayMs + 1)) + minDelayMs
MayReturn(t) == now >= t + minDelayMs

\* ... and has run out for certain
MustReturn(t) == now >= t + maxDelayMs

TimerDue ==
    \/ \E t \in SleepTimes(sleepers) : MustReturn(t)
    \/ \E i \in TokenWaiters : Due(acquires[i].wakeAt)

InitLimiter ==
    /\ retry = withRetryEnter(0, retryDelayMs)
    /\ opLog = <<>>
    /\ IdleCrawl
    /\ IdleGate
    /\ IdleProc

limiterRest == <<retryVars, crawlVars, robotsConsulted, tokensAcquired, probe, robots,
                 sleepMs, procVars>>

\* this.tokens -= 1; await sleep(minDelayMs, maxDelayMs)
Consume(l) ==
    /\ limiter' = [l EXCEPT !.tokens = @ - OneToken]
    /\ sleepers' = AddSleeper(sleepers, now)

\* acquire() up to its first await: refill, then either wait for a token or
\* consume one and start the configured delay
AcquireCall ==
    /\ Len(acquires) < MaxCalls
    /\ now <= MaxIssueTicks * TickMs
    /\ LET l == refill(limiter, now) IN
          IF l.tokens < OneToken
          THEN /\ acquires' = Append(acquires,
                     [issuedAt |-> now, found |-> l.tokens, state |-> "tokenWait",
                      wait |-> waitTime(l.tokens),
                      wakeAt |-> IF waitTime(l.tokens) = Never THEN Never
                                 ELSE now + waitTime(l.tokens),
                      consumedAt |-> Never, left |-> 0])
               /\ limiter' = l
               /\ UNCHANGED sleepers
          ELSE /\ acquires' = Append(acquires,
                     [issuedAt |-> now, found |-> l.tokens, state |-> "delay",
                      wait |-> 0, wakeAt |-> now, consumedAt |-> now,
                      left |-> l.tokens - OneToken])
               /\ Consume(l)
    /\ UNCHANGED <<now, returned, limiterRest>>

\* the timer of sleep(waitTime) fires: refill again, consume, start the delay
AcquireWake(i) ==
    /\ acquires[i].state = "tokenWait"
    /\ Due(acquires[i].wakeAt)
    /\ LET l == refill(limiter, now) IN
          /\ acquires' = [acquires EXCEPT ![i].state = "delay",
                                          ![i].consumedAt = now,
                                          ![i].left = l.tokens - OneToken]
          /\ Consume(l)
    /\ UNCHANGED <<now, returned, limiterRest>>

\* the timer of sleep(minDelayMs, maxDelayMs) fires: acquire() returns
AcquireReturn ==
    /\ \E t \in SleepTimes(sleepers) :
          /\ MayReturn(t)
          /\ sleepers' = DropSleeper(sleepers, t)
    /\ returned' = returned + 1
    /\ UNCHANGED <<now, limiter, acquires, limiterRest>>

\* the clock moves on once every timer that ran out has been served
Advance ==
    /\ ~TimerDue
    /\ TimerPending \/ now < MaxIssueTicks * TickMs
    /\ now' = now + TickMs
    /\ UNCHANGED <<limiter, acquires, sleepers, returned, limiterRest>>

NextLimiter ==
    \/ AcquireCall
    \/ \E i \in TokenWaiters : AcquireWake(i)
    \/ AcquireReturn
    \/ Advance

SpecLimiter ==
    /\ InitLimiter
    /\ [][NextLimiter]_vars
    /\ WF_vars(Advance)
    /\ WF_vars(\E i \in TokenWaiters : AcquireWake(i))
    /\ WF_vars(AcquireReturn)

---------------------------------------------------------------------------
(* Properties of the rate limiter, checked under SpecLimiter *)

\* time in which one token accrues: 3 s at 20 requests per minute
RefillMs == MinuteMs \div maxTokens

\* calls i .. i + maxTokens were issued at one instant, the first on a full bucket
BackToBack(i) ==
    /\ i + maxTokens <= Len(acquires)
    /\ acquires[i].found = maxTokens * OneToken
    /\ \A j \in i..(i + maxTokens) : acquires[j].issuedAt = acquires[i].issuedAt

\* C21: with 20 requests/minute and a full bucket, of 21 acquire calls issued
\* back-to-back the first 20 consume their token without waiting for one and
\* the 21st waits the 3 s in which one token accrues before it consumes, so
\* the 21 calls have not all returned before 3 s have passed.
C21_TwentyFirstWaits ==
    \A i \in 1..Len(acquires) :
       BackToBack(i) =>
          /\ \A j \in i..(i + maxTokens - 1) :
                acquires[j].wait = 0 /\ acquires[j].consumedAt = acquires[i].issuedAt
          /\ acquires[i + maxTokens].wait = RefillMs
          /\ acquires[i + maxTokens].wait = 3000
          /\ acquires[i + maxTokens].state = "delay" =>
                acquires[i + maxTokens].consumedAt >= acquires[i].issuedAt + RefillMs
          /\ returned = Len(acquires) => now >= acquires[i].issuedAt + RefillMs

C21_Witness ==
    \E i \in 1..Len(acquires) :
       /\ BackToBack(i)
       /\ acquires[i + maxTokens].state = "delay"
       /\ returned = Len(acquires)

\* C22 as stated: under any interleaving of concurrent acquire calls the
\* token count never drops below zero.
C22_TokensNeverNegative == limiter.tokens >= 0

\* C23: rateLimiter.acquire never fails and always eventually returns after
\* a finite wait: every wait for a token is a finite positive time, every
\* call that waits for a token comes to consume one, and in the end every
\* call that was issued has returned.
C23_FiniteWaits ==
    \A i \in 1..Len(acquires) :
       /\ acquires[i].state \in {"tokenWait", "delay"}
       /\ acquires[i].wait # Never
       /\ acquires[i].state = "tokenWait" =>
             (acquires[i].wait > 0 /\ acquires[i].wakeAt = acquires[i].issuedAt + acquires[i].wait)

C23_AlwaysReturns ==
    /\ []C23_FiniteWaits
    /\ (TokenWaiters # {}) ~> (TokenWaiters = {})
    /\ <>[](TokenWaiters = {} /\ returned = Len(acquires))

C23_Witness ==
    /\ \E i \in 1..Len(acquires) :
          acquires[i].wait > 0 /\ acquires[i].issuedAt > 0 /\ acquires[i].state = "delay"
    /\ returned = Len(acquires)

---------------------------------------------------------------------------
(* The page cap over two successive scrape-category jobs of one process:     *)
(* SCRAPER_CONFIG.maxPagesPerCategory is the default in force (3 as shipped, *)
(* 0 where the operator asked for unlimited), job.data.maxPages the override *)

ConfiguredCaps == {0, maxPagesPerCategory}

NoCapCall == [made |-> FALSE]

\* page counts the detection reports: up to one more than the shipped default
CapTotals == 1..(maxPagesPerCategory + 1)

probeRest == <<retryVars, crawlVars, robotsConsulted, tokensAcquired, limiterVars,
               robots, sleepMs, procVars>>

InitCap ==
    /\ retry = withRetryEnter(0, retryDelayMs)
    /\ opLog = <<>>
    /\ IdleCrawl
    /\ robotsConsulted = {}
    /\ tokensAcquired = 0
    /\ now = 0
    /\ limiter = RateLimiterNew
    /\ acquires = <<>>
    /\ sleepers = {}
    /\ returned = 0
    /\ robots = RobotsNew
    /\ sleepMs = 0
    /\ IdleProc
    /\ \E c \in ConfiguredCaps :
          probe = [fn |-> "cap", loaded |-> c, config |-> c,
                   prev |-> NoCapCall, last |-> NoCapCall]

\* const maxPages = customMaxPages ?? SCRAPER_CONFIG.maxPagesPerCategory
EffectiveCap(given, custom, configured) ==
    IF given THEN custom ELSE configured

\* variant of ConfigAfter in which the override is stored as the new default
ConfigAfterStored(given, custom, configured) ==
    IF given THEN custom ELSE configured

\* SCRAPER_CONFIG after an invocation: nothing assigns to it
ConfigAfter(given, custom, configured) == configured

\* handleScrapeCategory passes job.data.maxPages (given: the payload has it)
\* to scrapeCategoryAllPages, which detects total pages and caps them
CapCall ==
    /\ probe.fn = "cap"
    /\ \E given \in BOOLEAN, custom \in 0..MaxCap, total \in CapTotals :
          /\ ~given => custom = 0
          /\ probe' = [probe EXCEPT
                !.prev = probe.last,
                !.last = [made |-> TRUE, given |-> given, custom |-> custom,
                          total |-> total, configBefore |-> probe.config,
                          pages |-> PagesToScrape(total,
                                      EffectiveCap(given, custom, probe.config))],
                !.config = ConfigAfter(given, custom, probe.config)]
    /\ UNCHANGED probeRest

NextCap == CapCall

SpecCap == InitCap /\ [][NextCap]_vars

\* what C24 requires of one invocation
C24_CallOk(c) ==
    LET cap == IF c.given THEN c.custom ELSE probe.loaded IN
    c.made =>
       /\ cap = 0 => c.pages = c.total
       /\ cap > 0 => c.pages = Min(c.total, cap)

\* C24: an effective page cap of zero means unlimited (all detected pages are
\* scraped); job.data.maxPages, when supplied, replaces the configured default
\* for that invocation only: the configured default is unchanged and applies
\* to a later invocation that supplies no maxPages.
C24_OverrideThisInvocationOnly ==
    /\ probe.fn = "cap" =>
          /\ probe.config = probe.loaded
          /\ C24_CallOk(probe.prev)
          /\ C24_CallOk(probe.last)

C24_Witness ==
    /\ probe.fn = "cap"
    /\ probe.prev.made /\ probe.prev.given /\ probe.prev.custom = 0
    /\ probe.prev.total > probe.loaded /\ probe.loaded > 0
    /\ probe.prev.pages = probe.prev.total
    /\ ~probe.last.given /\ probe.last.total > probe.loaded
    /\ probe.last.pages = probe.loaded

---------------------------------------------------------------------------
(* RobotsTxtChecker: parsing robots.txt and matching a path against the      *)
(* rules.  Strings are sequences of characters, so that startsWith, endsWith *)
(* and includes are computed character by character.                         *)

\* path.startsWith(prefix)
StartsWith(str, prefix) ==
    /\ Len(prefix) <= Len(str)
    /\ SubSeq(str, 1, Len(prefix)) = prefix

\* str.includes(sub)
Includes(str, sub) ==
    \E i \in 0..(Len(str) - Len(sub)) : SubSeq(str, i + 1, i + Len(sub)) = sub

\* variant of matchesPattern that asks for the whole path to equal the pattern
matchesPatternExact(path, pattern) == path = pattern

\* matchesPattern(path, pattern)
matchesPattern(path, pattern) ==
    IF pattern = <<"/">> THEN TRUE
    ELSE IF pattern # <<>> /\ pattern[Len(pattern)] = "*"
         THEN StartsWith(path, SubSeq(pattern, 1, Len(pattern) - 1))
         ELSE StartsWith(path, pattern)

\* for (const allowPattern of rules.allow) if (matches) return true;  return false
RECURSIVE AnyAllowMatches(_, _)
AnyAllowMatches(allow, path) ==
    IF allow = <<>> THEN FALSE
    ELSE IF matchesPattern(path, Head(allow)) THEN TRUE
    ELSE AnyAllowMatches(Tail(allow), path)

\* the loop over rules.disallow in isAllowed, from `const path` to `return true`
RECURSIVE RulesAllow(_, _, _)
RulesAllow(disallow, allow, path) ==
    IF disallow = <<>> THEN TRUE
    ELSE IF matchesPattern(path, Head(disallow))
         THEN AnyAllowMatches(allow, path)
         ELSE RulesAllow(Tail(disallow), allow, path)

EmptyRules == [allow |-> <<>>, disallow |-> <<>>]

\* trimmed.startsWith('user-agent:'): agent === '*' || agent.includes('bot')
AgentSelected(agent) == agent = <<"*">> \/ Includes(agent, <<"b", "o", "t">>)

\* parseRobotsTxt, line by line; a line is its directive (lower-cased, as
\* `trimmed` is) and the trimmed text after the colon
RECURSIVE parseLines(_, _, _)
parseLines(lines, inUserAgentBlock, acc) ==
    IF lines = <<>> THEN acc
    ELSE LET line == Head(lines) IN
         IF line.key = "user-agent"
         THEN parseLines(Tail(lines), AgentSelected(line.value), acc)
         ELSE IF inUserAgentBlock /\ line.key = "disallow" /\ line.value # <<>>
         THEN parseLines(Tail(lines), inUserAgentBlock,
                         [acc EXCEPT !.disallow = Append(@, line.value)])
         ELSE IF inUserAgentBlock /\ line.key = "allow" /\ line.value # <<>>
         THEN parseLines(Tail(lines), inUserAgentBlock,
                         [acc EXCEPT !.allow = Append(@, line.value)])
         ELSE parseLines(Tail(lines), inUserAgentBlock, acc)

parseRobotsTxt(text) == parseLines(text, FALSE, EmptyRules)

\* the strings of the examples
Admin == <<"/", "a", "d", "m", "i", "n">>
AdminPublic == <<"/", "a", "d", "m", "i", "n", "/", "p", "u", "b", "l", "i", "c">>
AdminPrivate == <<"/", "a", "d", "m", "i", "n", "/", "p", "r", "i", "v", "a", "t", "e">>
Other == <<"/", "o", "t", "h", "e", "r">>
Root == <<"/">>

UserAgent(a) == [key |-> "user-agent", value |-> a]
Disallow(pat) == [key |-> "disallow", value |-> pat]
Allow(pat) == [key |-> "allow", value |-> pat]

\* robots.txt bodies that are served
RobotsTexts ==
    { <<UserAgent(<<"*">>), Disallow(Admin), Allow(AdminPublic)>>,
      <<UserAgent(<<"*">>), Disallow(AdminPrivate), Allow(Admin)>>,
      <<UserAgent(<<"*">>), Disallow(AdminPublic), Disallow(Admin), Allow(AdminPublic)>>,
      <<UserAgent(<<"*">>), Disallow(Admin \o <<"*">>), Allow(Root)>>,
      <<UserAgent(<<"x", "b", "o", "t", "s">>), Disallow(Admin),
        UserAgent(<<"c", "u", "r", "l">>), Disallow(Other)>>,
      <<Disallow(Other), UserAgent(<<"*">>), Disallow(<<>>), Allow(<<>>)>>,
      <<UserAgent(<<"*">>), Disallow(Root)>>,
      <<>> }

\* the paths asked about: every prefix of /admin/public/x and of
\* /admin/private/x, each also followed by x, and /other
Stems == { SubSeq(AdminPublic \o <<"/", "x">>, 1, n) : n \in 1..(Len(AdminPublic) + 2) }
            \cup { SubSeq(AdminPrivate \o <<"/", "x">>, 1, n) : n \in 1..(Len(AdminPrivate) + 2) }

Paths == Stems \cup { st \o <<"x">> : st \in Stems } \cup {Other, Other \o <<"/", "x">>}

InitRules ==
    /\ retry = withRetryEnter(0, retryDelayMs)
    /\ opLog = <<>>
    /\ IdleCrawl
    /\ robotsConsulted = {}
    /\ tokensAcquired = 0
    /\ now = 0
    /\ limiter = RateLimiterNew
    /\ acquires = <<>>
    /\ sleepers = {}
    /\ returned = 0
    /\ robots = RobotsNew
    /\ sleepMs = 0
    /\ IdleProc
    /\ \E text \in RobotsTexts, path \in Paths :
          probe = [fn |-> "rules", stage |-> "text", text |-> text, path |-> path,
                   rules |-> EmptyRules, allowed |-> TRUE]

\* const parsed = this.parseRobotsTxt(text)
RulesParse ==
    /\ probe.fn = "rules" /\ probe.stage = "text"
    /\ probe' = [probe EXCEPT !.stage = "parsed", !.rules = parseRobotsTxt(probe.text)]
    /\ UNCHANGED probeRest

\* the check of parsed.pathname against the rules
RulesCheck ==
    /\ probe.fn = "rules" /\ probe.stage = "parsed"
    /\ probe' = [probe EXCEPT !.stage = "checked",
                    !.allowed = RulesAllow(probe.rules.disallow, probe.rules.allow,
                                           probe.path)]
    /\ UNCHANGED probeRest

NextRules == RulesParse \/ RulesCheck

SpecRules == InitRules /\ [][NextRules]_vars

---------------------------------------------------------------------------
(* Properties of the rule matching, checked under SpecRules *)

RulesChecked == probe.fn = "rules" /\ probe.stage = "checked"

\* C25: with rules disallow ["/admin"] and allow ["/admin/public"], every path
\* that begins with /admin and not with /admin/public is disallowed, every
\* path that begins with /admin/public is allowed, and every path matching no
\* Disallow pattern (e.g. /other) is allowed.
C25_AdminExample ==
    (RulesChecked /\ probe.rules = [disallow |-> <<Admin>>, allow |-> <<AdminPublic>>]) =>
       /\ (StartsWith(probe.path, Admin) /\ ~StartsWith(probe.path, AdminPublic))
             => ~probe.allowed
       /\ StartsWith(probe.path, AdminPublic) => probe.allowed
       /\ ~StartsWith(probe.path, Admin) => probe.allowed
       /\ probe.path = Other => probe.allowed
       /\ probe.path = Admin \o <<"/", "x">> => ~probe.allowed
       /\ probe.path = AdminPublic \o <<"/", "x">> => probe.allowed

C25_Witness ==
    /\ RulesChecked
    /\ probe.rules = [disallow |-> <<Admin>>, allow |-> <<AdminPublic>>]
    /\ probe.path = AdminPublic \o <<"/", "x">>
    /\ probe.allowed

\* the literal prefix of a pattern: the pattern without a trailing *
Literal(pattern) ==
    IF pattern # <<>> /\ pattern[Len(pattern)] = "*"
    THEN SubSeq(pattern, 1, Len(pattern) - 1) ELSE pattern

Matching(patterns, path) ==
    { i \in 1..Len(patterns) : matchesPattern(path, patterns[i]) }

\* C26 as stated: a path that matches a Disallow pattern is allowed only if a
\* matching Allow pattern has the same or a longer literal prefix than the
\* matching Disallow pattern; a shorter matching Allow pattern does not
\* override the Disallow.
C26_AllowNeedsSpecificity ==
    (RulesChecked /\ Matching(probe.rules.disallow, probe.path) # {} /\ probe.allowed) =>
       \E a \in Matching(probe.rules.allow, probe.path) :
          \A d \in Matching(probe.rules.disallow, probe.path) :
             Len(Literal(probe.rules.allow[a])) >= Len(Literal(probe.rules.disallow[d]))

---------------------------------------------------------------------------
(* robotsChecker.isAllowed with its fetches, over time *)

MaxRobotsTicks == 2     \* ticks of the clock in one behaviour
RobotsTickMs == 2400000 \* 40 minutes pass in one tick

\* Date.now() when the module was loaded: more than cacheMs after the epoch
LoadedAt == cacheMs + 1

DateNow == LoadedAt + now

Unparsable == <<[key |-> "other", value |-> <<"?">>]>>

\* what GET <origin>/robots.txt may bring
FetchOutcomes ==
    { [kind |-> k, text |-> <<>>] : k \in {"rejects", "notOk", "textRejects"} }
       \cup { [kind |-> "ok", text |-> t] :
                t \in { <<UserAgent(<<"*">>), Disallow(Admin), Allow(AdminPublic)>>,
                        Unparsable } }

\* the url argument: new URL(url) throws on a malformed one
RobotsUrls ==
    { [malformed |-> FALSE, origin |-> o, pathname |-> pa] :
         o \in Origins, pa \in {Admin \o <<"/", "x">>, Other} }
       \cup { [malformed |-> TRUE, origin |-> "A", pathname |-> <<>>] }

SetRules(r, origin, rules) ==
    [r EXCEPT !.rules[origin] = [present |-> TRUE, allow |-> rules.allow,
                                 disallow |-> rules.disallow],
              !.setAt[origin] = DateNow]

\* variant of fetchRobotsTxt that leaves the cached rules alone when the fetch fails
fetchRobotsTxtKeep(r, origin, got) ==
    IF got.kind = "ok"
    THEN [SetRules(r, origin, parseRobotsTxt(got.text)) EXCEPT !.lastFetch = DateNow]
    ELSE IF r.rules[origin].present THEN r ELSE SetRules(r, origin, EmptyRules)

\* fetchRobotsTxt(robotsUrl, origin)
fetchRobotsTxt(r, origin, got) ==
    IF got.kind = "ok"
    THEN [SetRules(r, origin, parseRobotsTxt(got.text)) EXCEPT !.lastFetch = DateNow]
    ELSE SetRules(r, origin, EmptyRules)

\* !this.rules.has(parsed.origin) || Date.now() - this.lastFetch > this.cacheMs
NeedsFetch(r, origin) ==
    ~r.rules[origin].present \/ DateNow - r.lastFetch > cacheMs

InitRobots ==
    /\ retry = withRetryEnter(0, retryDelayMs)
    /\ opLog = <<>>
    /\ IdleCrawl
    /\ IdleGate
    /\ IdleProc

robotsRest == <<retryVars, crawlVars, robotsConsulted, tokensAcquired, limiter,
                acquires, sleepers, returned, sleepMs, procVars>>

\* isAllowed(url): the whole call, its fetch included
IsAllowed ==
    /\ \E url \in RobotsUrls, got \in FetchOutcomes :
          IF url.malformed
          THEN /\ probe' = [fn |-> "isAllowed", url |-> url, fetched |-> FALSE,
                            outcome |-> got.kind, cached |-> FALSE, age |-> 0,
                            denied |-> FALSE, caught |-> TRUE, raised |-> FALSE,
                            allowed |-> TRUE]
               /\ UNCHANGED robots
          ELSE LET need == NeedsFetch(robots, url.origin)
                   after == IF need THEN fetchRobotsTxt(robots, url.origin, got)
                            ELSE robots
                   rules == after.rules[url.origin]
                   old == robots.rules[url.origin]
               IN /\ robots' = after
                  /\ probe' = [fn |-> "isAllowed", url |-> url, fetched |-> need,
                               outcome |-> got.kind,
                               cached |-> old.present,
                               age |-> DateNow - robots.setAt[url.origin],
                               denied |-> ~RulesAllow(old.disallow, old.allow, url.pathname),
                               caught |-> (need /\ got.kind \in {"rejects", "textRejects"}),
                               raised |-> FALSE,
                               allowed |-> IF ~rules.present THEN TRUE
                                           ELSE RulesAllow(rules.disallow, rules.allow,
                                                           url.pathname)]
    /\ UNCHANGED <<now, robotsRest>>

\* time passes
RobotsTick ==
    /\ now < MaxRobotsTicks * RobotsTickMs
    /\ now' = now + RobotsTickMs
    /\ UNCHANGED <<probe, robots, robotsRest>>

NextRobots == IsAllowed \/ RobotsTick

SpecRobots == InitRobots /\ [][NextRobots]_vars

---------------------------------------------------------------------------
(* Properties of the robots check, checked under SpecRobots *)

Asked == probe.fn = "isAllowed"

\* C27: the robots check fails open and never raises: if robots.txt cannot be
\* fetched (network error or non-OK response), cannot be parsed or read, or
\* the URL itself is malformed, isAllowed returns true.
C27_FailsOpen ==
    Asked =>
       /\ ~probe.raised
       /\ probe.url.malformed => probe.allowed
       /\ (probe.fetched /\ probe.outcome \in {"rejects", "notOk", "textRejects"})
             => probe.allowed
       /\ (probe.fetched /\ probe.outcome = "ok"
              /\ robots.rules[probe.url.origin].disallow = <<>>) => probe.allowed

C27_Witness ==
    /\ Asked
    /\ probe.fetched /\ probe.outcome = "rejects" /\ probe.caught
    /\ probe.cached /\ probe.denied
    /\ probe.allowed

\* C28 as stated: isAllowed(url) refetches the rules of the URL's origin
\* whenever they are absent or were obtained more than one hour ago, and
\* answers from the cached rules without refetching when they are younger
\* than one hour, whatever other origins were fetched in between.
C28_PerOriginFreshness ==
    (Asked /\ ~probe.url.malformed) =>
       (probe.fetched <=> (~probe.cached \/ probe.age > cacheMs))

---------------------------------------------------------------------------
(* The selector resolver: trySelectors and ScraperService.trySelectorsOnPage *)

MaxSelectors == 2       \* longest selector list tried
MaxMatches == 2         \* most elements one selector matches

Selectors == {".missing", ".present", ".bad"}

\* a page: per selector, whether querying it throws and how many elements match
PageDoms == [Selectors -> [throws : BOOLEAN, count : 0..MaxMatches]]

SelectorLists == UNION { [1..n -> Selectors] : n \in 0..MaxSelectors }

\* the elements a selector matches on the page, in document order
Elements(dom, sel) == [i \in 1..dom[sel].count |-> <<sel, i>>]

JsNull == [isArray |-> FALSE, isNull |-> TRUE, items |-> <<>>]
JsArray(items) == [isArray |-> TRUE, isNull |-> FALSE, items |-> items]
JsElement(el) == [isArray |-> FALSE, isNull |-> FALSE, items |-> <<el>>]

\* await page.$$(selector) / await page.$(selector)
Query(dom, sel, method) ==
    IF dom[sel].throws THEN [threw |-> TRUE, value |-> JsNull]
    ELSE IF method = "querySelectorAll"
         THEN [threw |-> FALSE, value |-> JsArray(Elements(dom, sel))]
         ELSE [threw |-> FALSE,
               value |-> IF dom[sel].count = 0 THEN JsNull
                         ELSE JsElement(Elements(dom, sel)[1])]

\* variant of Truthy that takes an empty array for a match
TruthyEmptyToo(v) == ~v.isNull

\* result && (Array.isArray(result) ? result.length > 0 : true)
Truthy(v) == ~v.isNull /\ (v.isArray => Len(v.items) > 0)

\* trySelectors(page, selectorList, method)
RECURSIVE trySelectors(_, _, _)
trySelectors(dom, selectorList, method) ==
    IF selectorList = <<>>
    THEN [threw |-> FALSE,
          value |-> IF method = "querySelectorAll" THEN JsArray(<<>>) ELSE JsNull]
    ELSE LET q == Query(dom, Head(selectorList), method) IN
         IF q.threw THEN trySelectors(dom, Tail(selectorList), method)
         ELSE IF Truthy(q.value) THEN [threw |-> FALSE, value |-> q.value]
         ELSE trySelectors(dom, Tail(selectorList), method)

\* ScraperService.trySelectorsOnPage(page, selectors)
RECURSIVE trySelectorsOnPage(_, _)
trySelectorsOnPage(dom, selectors) ==
    IF selectors = <<>> THEN [threw |-> FALSE, value |-> JsArray(<<>>)]
    ELSE LET q == Query(dom, Head(selectors), "querySelectorAll") IN
         IF q.threw THEN trySelectorsOnPage(dom, Tail(selectors))
         ELSE IF Truthy(q.value) THEN [threw |-> FALSE, value |-> q.value]
         ELSE trySelectorsOnPage(dom, Tail(selectors))

InitSelectors ==
    /\ retry = withRetryEnter(0, retryDelayMs)
    /\ opLog = <<>>
    /\ IdleCrawl
    /\ robotsConsulted = {}
    /\ tokensAcquired = 0
    /\ now = 0
    /\ limiter = RateLimiterNew
    /\ acquires = <<>>
    /\ sleepers = {}
    /\ returned = 0
    /\ robots = RobotsNew
    /\ sleepMs = 0
    /\ IdleProc
    /\ \E dom \in PageDoms, l \in SelectorLists :
          probe = [fn |-> "selectors", by |-> "none", dom |-> dom, list |-> l,
                   method |-> "none", threw |-> FALSE, value |-> JsNull]

\* a caller resolves the list with trySelectors
TrySelectors ==
    /\ probe.fn = "selectors" /\ probe.by = "none"
    /\ \E method \in {"querySelector", "querySelectorAll"} :
          LET r == trySelectors(probe.dom, probe.list, method) IN
          probe' = [probe EXCEPT !.by = "trySelectors", !.method = method,
                                 !.threw = r.threw, !.value = r.value]
    /\ UNCHANGED probeRest

\* a scrape method resolves the list with trySelectorsOnPage
TrySelectorsOnPage ==
    /\ probe.fn = "selectors" /\ probe.by = "none"
    /\ LET r == trySelectorsOnPage(probe.dom, probe.list) IN
       probe' = [probe EXCEPT !.by = "trySelectorsOnPage", !.method = "querySelectorAll",
                              !.threw = r.threw, !.value = r.value]
    /\ UNCHANGED probeRest

NextSelectors == TrySelectors \/ TrySelectorsOnPage

SpecSelectors == InitSelectors /\ [][NextSelectors]_vars

---------------------------------------------------------------------------
(* Properties of the selector resolver, checked under SpecSelectors *)

Resolved == probe.fn = "selectors" /\ probe.by # "none"

\* positions of the list whose selector matches: its query does not throw
\* and finds at least one element
MatchingAt ==
    { i \in 1..Len(probe.list) :
         ~probe.dom[probe.list[i]].throws /\ probe.dom[probe.list[i]].count > 0 }

FirstMatching == CHOOSE i \in MatchingAt : \A j \in MatchingAt : i <= j

\* C29: the resolver returns the match set of the first selector in list
\* order that matches (all its elements for find-all, its first element for
\* find-one); a selector whose query throws counts as no match and nothing is
\* thrown; if no selector matches the result is empty ([] for find-all, null
\* for find-one).  For [".missing", ".present"] with only .present matching
\* it returns .present's elements.
C29_FirstMatchingSelector ==
    Resolved =>
       /\ ~probe.threw
       /\ MatchingAt = {} =>
             probe.value = IF probe.method = "querySelectorAll" THEN JsArray(<<>>) ELSE JsNull
       /\ MatchingAt # {} =>
             LET sel == probe.list[FirstMatching] IN
             probe.value = IF probe.method = "querySelectorAll"
                           THEN JsArray(Elements(probe.dom, sel))
                           ELSE JsElement(<<sel, 1>>)
       /\ (probe.list = <<".missing", ".present">> /\ probe.dom[".missing"].count = 0
              /\ probe.dom[".present"].count > 0 /\ ~probe.dom[".present"].throws
              /\ probe.method = "querySelectorAll")
             => probe.value = JsArray(Elements(probe.dom, ".present"))

C29_Witness ==
    /\ Resolved
    /\ probe.by = "trySelectorsOnPage"
    /\ probe.list = <<".bad", ".present">>
    /\ probe.dom[".bad"].throws
    /\ probe.value = JsArray(<<<<".present", 1>>, <<".present", 2>>>>)

---------------------------------------------------------------------------
(* The pagination estimator: ScraperService.detectTotalPages.  The page is   *)
(* its body text, the href of every link the page= selector finds and the    *)
(* text of every pagination label; texts are sequences of characters.        *)

PRODUCTS_PER_PAGE == 40

DigitChars == <<"0", "1", "2", "3", "4", "5", "6", "7", "8", "9">>
UpperChars == <<"A", "B", "C", "D", "E", "F", "G", "H", "I", "J", "K", "L", "M", "N", "O", "P", "Q", "R", "S", "T", "U", "V", "W", "X", "Y", "Z">>
LowerChars == <<"a", "b", "c", "d", "e", "f", "g", "h", "i", "j", "k", "l", "m", "n", "o", "p", "q", "r", "s", "t", "u", "v", "w", "x", "y", "z">>

IsDigit(c) == \E i \in 1..Len(DigitChars) : DigitChars[i] = c
DigitVal(c) == (CHOOSE i \in 1..Len(DigitChars) : DigitChars[i] = c) - 1
IsSpace(c) == c \in {" ", "\t", "\n"}

\* the /i flag: letters are compared in lower case
LowerChar(c) ==
    IF \E i \in 1..Len(UpperChars) : UpperChars[i] = c
    THEN LowerChars[CHOOSE i \in 1..Len(UpperChars) : UpperChars[i] = c]
    ELSE c

LowerStr(str) == [i \in 1..Len(str) |-> LowerChar(str[i])]

\* str from position i on
From(str, i) == SubSeq(str, i, Len(str))

\* how far [\d,]* or \d* runs from position i (i - 1: not at all)
RECURSIVE RunEnd(_, _, _)
RunEnd(str, i, commas) ==
    IF i <= Len(str) /\ (IsDigit(str[i]) \/ (commas /\ str[i] = ","))
    THEN RunEnd(str, i + 1, commas) ELSE i - 1

\* where \s* stops from position i
RECURSIVE SkipSpaces(_, _)
SkipSpaces(str, i) ==
    IF i <= Len(str) /\ IsSpace(str[i]) THEN SkipSpaces(str, i + 1) ELSE i

\* .replace(/,/g, '')
RECURSIVE RemoveCommas(_)
RemoveCommas(str) ==
    IF str = <<>> THEN <<>>
    ELSE IF Head(str) = "," THEN RemoveCommas(Tail(str))
    ELSE <<Head(str)>> \o RemoveCommas(Tail(str))

\* str.trim()
RECURSIVE TrimEnd(_)
TrimEnd(str) ==
    IF str # <<>> /\ IsSpace(str[Len(str)]) THEN TrimEnd(SubSeq(str, 1, Len(str) - 1))
    ELSE str

Trim(str) == TrimEnd(From(str, SkipSpaces(str, 1)))

NaN == -1               \* stands for NaN: like NaN it is not > 0

RECURSIVE DigitsValue(_, _)
DigitsValue(str, acc) ==
    IF str = <<>> THEN acc ELSE DigitsValue(Tail(str), 10 * acc + DigitVal(Head(str)))

\* parseInt(str, 10) of a string without sign: its leading digits, or NaN
ParseInt(str) ==
    LET t == From(str, SkipSpaces(str, 1))
        e == RunEnd(t, 1, FALSE)
    IN IF e = 0 THEN NaN ELSE DigitsValue(SubSeq(t, 1, e), 0)

NoMatch == [found |-> FALSE, text |-> <<>>]

\* bodyText.match(/(\d[\d,]*)\s*products?/i): the leftmost match, group 1
CountMatchAt(str, i) ==
    /\ IsDigit(str[i])
    /\ StartsWith(From(LowerStr(str), SkipSpaces(str, RunEnd(str, i, TRUE) + 1)),
                  <<"p", "r", "o", "d", "u", "c", "t">>)

MatchProducts(str) ==
    IF \E i \in 1..Len(str) : CountMatchAt(str, i)
    THEN LET i == CHOOSE k \in 1..Len(str) :
                     CountMatchAt(str, k) /\ \A j \in 1..(k - 1) : ~CountMatchAt(str, j)
         IN [found |-> TRUE, text |-> SubSeq(str, i, RunEnd(str, i, TRUE))]
    ELSE NoMatch

\* bodyText.match(/out of (\d[\d,]*)/i)
OutOfMatchAt(str, i) ==
    /\ StartsWith(From(LowerStr(str), i), <<"o", "u", "t", " ", "o", "f", " ">>)
    /\ i + 7 <= Len(str)
    /\ IsDigit(str[i + 7])

MatchOutOf(str) ==
    IF \E i \in 1..Len(str) : OutOfMatchAt(str, i)
    THEN LET i == CHOOSE k \in 1..Len(str) :
                     OutOfMatchAt(str, k) /\ \A j \in 1..(k - 1) : ~OutOfMatchAt(str, j)
         IN [found |-> TRUE, text |-> SubSeq(str, i + 7, RunEnd(str, i + 7, TRUE))]
    ELSE NoMatch

\* the function evaluated in the page for method 1: a digit string or null
productCountText(bodyText) ==
    IF MatchProducts(bodyText).found
    THEN [found |-> TRUE, text |-> RemoveCommas(MatchProducts(bodyText).text)]
    ELSE IF MatchOutOf(bodyText).found
    THEN [found |-> TRUE, text |-> RemoveCommas(MatchOutOf(bodyText).text)]
    ELSE NoMatch

\* variant of PagesOf that rounds down
PagesOfFloor(totalProducts) == totalProducts \div PRODUCTS_PER_PAGE

\* Math.ceil(totalProducts / PRODUCTS_PER_PAGE)
PagesOf(totalProducts) == (totalProducts + PRODUCTS_PER_PAGE - 1) \div PRODUCTS_PER_PAGE

\* href.match(/page=(\d+)/): parseInt of group 1, or 0
PageParamAt(href, i) ==
    /\ StartsWith(From(href, i), <<"p", "a", "g", "e", "=">>)
    /\ i + 5 <= Len(href)
    /\ IsDigit(href[i + 5])

PageParam(href) ==
    IF \E i \in 1..Len(href) : PageParamAt(href, i)
    THEN LET i == CHOOSE k \in 1..Len(href) :
                     PageParamAt(href, k) /\ \A j \in 1..(k - 1) : ~PageParamAt(href, j)
         IN DigitsValue(SubSeq(href, i + 5, RunEnd(href, i + 5, FALSE)), 0)
    ELSE 0

\* links.map(...).filter((n) => n > 0)
pageLinksUnfiltered(hrefs) == [i \in 1..Len(hrefs) |-> PageParam(hrefs[i])]
pageLinks(hrefs) == SelectSeq([i \in 1..Len(hrefs) |-> PageParam(hrefs[i])], LAMBDA n : n > 0)

\* items.map((el) => parseInt(el.textContent?.trim() || '0', 10)).filter(...)
LabelNumber(label) == IF Trim(label) = <<>> THEN 0 ELSE ParseInt(Trim(label))

pageNumbers(labels) ==
    SelectSeq([i \in 1..Len(labels) |-> LabelNumber(labels[i])],
              LAMBDA n : n # NaN /\ n > 0)

\* Math.max(...list) of a non-empty list
MaxOf(list) == CHOOSE m \in {list[i] : i \in 1..Len(list)} :
                  \A i \in 1..Len(list) : list[i] <= m

\* detectTotalPages(page); throws[k]: the evaluation of method k throws
detectTotalPages(pg) ==
    IF pg.throws[1] THEN 1
    ELSE LET t == productCountText(pg.bodyText) IN
    IF t.found /\ t.text # <<>> /\ ParseInt(t.text) > 0 THEN PagesOf(ParseInt(t.text))
    ELSE IF pg.throws[2] THEN 1
    ELSE IF Len(pageLinks(pg.hrefs)) > 0 THEN MaxOf(pageLinks(pg.hrefs))
    ELSE IF pg.throws[3] THEN 1
    ELSE IF Len(pageNumbers(pg.labels)) > 0 THEN MaxOf(pageNumbers(pg.labels))
    ELSE 1

BodyTexts ==
    { <<"1", ",", "2", "3", "4", " ", "p", "r", "o", "d", "u", "c", "t", "s">>,
      <<"0", " ", "p", "r", "o", "d", "u", "c", "t", "s">>,
      <<"1", "-", "4", "0", " ", "o", "f", " ", "9", "0", " ", "p", "r", "o", "d", "u", "c", "t", "s">>,
      <<"s", "e", "e", "n", " ", "4", "0", " ", "o", "u", "t", " ", "o", "f", " ", "8", "1">>,
      <<"4", "1", " ", "P", "r", "o", "d", "u", "c", "t">>,
      <<"b", "o", "o", "k", "s">> }

HrefLists ==
    { <<>>,
      <<<<"?", "p", "a", "g", "e", "=", "2">>, <<"/", "c", "?", "q", "=", "x", "&", "p", "a", "g", "e", "=", "1", "3">>>>,
      <<<<"?", "p", "a", "g", "e", "=">>>> }

LabelLists ==
    { <<>>,
      <<<<"1">>, <<" ", "4", " ">>, <<"n", "e", "x", "t">>>>,
      <<<<"0">>, <<"n", "e", "x", "t">>>> }

PagesDetectable ==
    [bodyText : BodyTexts, hrefs : HrefLists, labels : LabelLists,
     throws : [1..3 -> BOOLEAN]]

InitPagination ==
    /\ retry = withRetryEnter(0, retryDelayMs)
    /\ opLog = <<>>
    /\ IdleCrawl
    /\ robotsConsulted = {}
    /\ tokensAcquired = 0
    /\ now = 0
    /\ limiter = RateLimiterNew
    /\ acquires = <<>>
    /\ sleepers = {}
    /\ returned = 0
    /\ robots = RobotsNew
    /\ sleepMs = 0
    /\ IdleProc
    /\ \E pg \in PagesDetectable :
          probe = [fn |-> "pagination", page |-> pg, done |-> FALSE, totalPages |-> 0]

\* totalPages = await this.detectTotalPages(page)
DetectTotalPages ==
    /\ probe.fn = "pagination" /\ ~probe.done
    /\ probe' = [probe EXCEPT !.done = TRUE, !.totalPages = detectTotalPages(probe.page)]
    /\ UNCHANGED probeRest

NextPagination == DetectTotalPages

SpecPagination == InitPagination /\ [][NextPagination]_vars

---------------------------------------------------------------------------
(* Properties of the pagination estimator, checked under SpecPagination *)

Estimated == probe.fn = "pagination" /\ probe.done

\* what each heuristic gives on the page when it is evaluated (0: no success)
ByCount ==
    LET t == productCountText(probe.page.bodyText) IN
    IF t.found /\ ParseInt(t.text) > 0
    THEN (ParseInt(t.text) + 39) \div 40 ELSE 0

ByLinks ==
    IF pageLinks(probe.page.hrefs) = <<>> THEN 0 ELSE MaxOf(pageLinks(probe.page.hrefs))

ByLabels ==
    IF pageNumbers(probe.page.labels) = <<>> THEN 0 ELSE MaxOf(pageNumbers(probe.page.labels))

\* heuristic k is reached: no earlier one threw or succeeded
Reached(k) ==
    /\ \A j \in 1..(k - 1) : ~probe.page.throws[j]
    /\ k >= 2 => ByCount = 0
    /\ k >= 3 => ByLinks = 0

\* ... and its evaluation does not throw
Runs(k) == Reached(k) /\ ~probe.page.throws[k]

\* C30: the estimator applies product-count text / 40 rounded up, then the
\* maximum page= link value, then the maximum numeric pagination label, and
\* returns the result of the first that succeeds, a later heuristic never
\* overriding an earlier success; "1,234 products" gives 31, no numeric
\* signal at all gives 1 (as does an evaluation that throws).
C30_FirstHeuristicWins ==
    Estimated =>
       /\ (Runs(1) /\ ByCount > 0) => probe.totalPages = ByCount
       /\ (Runs(2) /\ ByLinks > 0) => probe.totalPages = ByLinks
       /\ (Runs(3) /\ ByLabels > 0) => probe.totalPages = ByLabels
       /\ (Runs(3) /\ ByLabels = 0) => probe.totalPages = 1
       /\ (\E k \in 1..3 : Reached(k) /\ probe.page.throws[k]) => probe.totalPages = 1
       /\ (probe.page.bodyText = <<"1", ",", "2", "3", "4", " ", "p", "r", "o", "d", "u", "c", "t", "s">> /\ ~probe.page.throws[1])
             => probe.totalPages = 31
       /\ (probe.page.bodyText = <<"b", "o", "o", "k", "s">> /\ probe.page.hrefs = <<>>
              /\ probe.page.labels = <<>>) => probe.totalPages = 1

C30_Witness ==
    /\ Estimated
    /\ probe.page.bodyText = <<"1", ",", "2", "3", "4", " ", "p", "r", "o", "d", "u", "c", "t", "s">>
    /\ ByLinks = 13 /\ ByLabels = 4
    /\ \A k \in 1..3 : ~probe.page.throws[k]
    /\ probe.totalPages = 31

---------------------------------------------------------------------------
(* The detection load of scrapeCategoryAllPages on its own: the request     *)
(* handler on every page of PagesDetectable, with and without a matching   *)
(* product-card selector, under every page cap; then the cap and the first *)
(* test of the page loop.                                                  *)

DetectCaps == { [capGiven |-> FALSE, cap |-> 0] }
                 \cup { [capGiven |-> TRUE, cap |-> c] : c \in 0..MaxCap }

InitDetect ==
    /\ retry = withRetryEnter(0, retryDelayMs)
    /\ opLog = <<>>
    /\ IdleCrawl
    /\ robotsConsulted = {}
    /\ tokensAcquired = 0
    /\ now = 0
    /\ limiter = RateLimiterNew
    /\ acquires = <<>>
    /\ sleepers = {}
    /\ returned = 0
    /\ robots = RobotsNew
    /\ sleepMs = 0
    /\ IdleProc
    /\ \E pg \in PagesDetectable, found \in BOOLEAN, c \in DetectCaps :
          probe = [fn |-> "detect", page |-> pg, foundSelector |-> found,
                   customMaxPages |-> c, stage |-> "load", totalPages |-> 1,
                   pagesToScrape |-> 0, attempted |-> {}]

\* the request handler of the detection crawler: return when no product-card
\* selector matched, else totalPages = await this.detectTotalPages(page)
DetectHandler ==
    /\ probe.fn = "detect" /\ probe.stage = "load"
    /\ probe' = [probe EXCEPT !.stage = "handled",
                              !.totalPages = IF probe.foundSelector
                                             THEN detectTotalPages(probe.page)
                                             ELSE probe.totalPages]
    /\ UNCHANGED probeRest

\* const maxPages = customMaxPages ?? maxPagesPerCategory; const pagesToScrape = ...
DetectApplyCap ==
    /\ probe.fn = "detect" /\ probe.stage = "handled"
    /\ probe' = [probe EXCEPT !.stage = "loop",
                              !.pagesToScrape =
                                  PagesToScrape(probe.totalPages,
                                                MaxPagesOf(probe.customMaxPages))]
    /\ UNCHANGED probeRest

\* for (let page = 1; page <= pagesToScrape; ...): the first loop test
DetectLoopTest ==
    /\ probe.fn = "detect" /\ probe.stage = "loop"
    /\ probe' = IF 1 <= probe.pagesToScrape
                THEN [probe EXCEPT !.stage = "page", !.attempted = {1}]
                ELSE [probe EXCEPT !.stage = "return"]
    /\ UNCHANGED probeRest

NextDetect == DetectHandler \/ DetectApplyCap \/ DetectLoopTest

SpecDetect == InitDetect /\ [][NextDetect]_vars

\* C40: the detected page count is an integer >= 1, also when the count text
\* is zero, when no heuristic matches, when page evaluation throws and when
\* no product card is found on the first load; so the number of pages to
\* scrape is >= 1 under every cap and the page loop attempts page 1.
C40_AtLeastOnePage ==
    probe.fn = "detect" =>
        /\ probe.totalPages \in Nat /\ probe.totalPages >= 1
        /\ probe.stage \in {"loop", "page", "return"} => probe.pagesToScrape >= 1
        /\ probe.stage # "return"
        /\ probe.stage = "page" => 1 \in probe.attempted
        /\ (probe.stage # "load" /\ ~probe.foundSelector) => probe.totalPages = 1

C40_Witness ==
    /\ probe.fn = "detect"
    /\ probe.stage = "page"
    /\ probe.foundSelector
    /\ probe.page.bodyText = <<"0", " ", "p", "r", "o", "d", "u", "c", "t", "s">>
    /\ probe.page.throws[2]
    /\ probe.totalPages = 1
    /\ probe.customMaxPages = [capGiven |-> TRUE, cap |-> 0]
    /\ probe.attempted = {1}

---------------------------------------------------------------------------
(* Category extraction: the product cards of a page are mapped to records  *)
(* and filtered.  A card is given by the text content and the href the     *)
(* title selectors find in it (empty: none found).                         *)

MaxCards == 2           \* most product cards on a page

CardTexts == { <<>>, <<" ">>, <<"T">>, <<" ", "T", " ">> }

CardHrefs == { <<>>, <<"/", "p", "/", "x">>, <<"/", "p", "/", "x", "/">>, <<"h", "t", "t", "p", ":", "/", "/", "h", "/", "x">> }

Cards == [text : CardTexts, href : CardHrefs]

WOB_ORIGIN == <<"h", "t", "t", "p", "s", ":", "/", "/", "w", "w", "w", ".", "w", "o", "r", "l", "d", "o", "f", "b", "o", "o", "k", "s", ".", "c", "o", "m">>

\* productUrl.split('/'): the last part
RECURSIVE LastPart(_)
LastPart(str) ==
    IF str = <<>> \/ str[Len(str)] = "/" THEN <<>>
    ELSE Append(LastPart(SubSeq(str, 1, Len(str) - 1)), str[Len(str)])

\* findText(selectors.productTitle): el.textContent.trim() of the first match
findText(card) == Trim(card.text)

\* findAttr(selectors.productTitle, 'href')
findAttr(card) == card.href

\* the record the $$eval callback returns for one card
cardRecord(card) ==
    LET title == findText(card)
        productUrl == findAttr(card)
    IN [ source_id |-> IF productUrl # <<>> THEN LastPart(productUrl) ELSE <<>>,
         title |-> IF title # <<>> THEN title ELSE <<"U", "n", "k", "n", "o", "w", "n", " ", "T", "i", "t", "l", "e">>,
         source_url |-> productUrl ]

\* pageProducts.filter((p) => p.title && p.source_url).map(...source_url made absolute)
validProducts(pageProducts) ==
    LET kept == SelectSeq(pageProducts, LAMBDA r : r.title # <<>> /\ r.source_url # <<>>)
    IN [k \in 1..Len(kept) |->
           [kept[k] EXCEPT !.source_url =
               IF StartsWith(kept[k].source_url, <<"h", "t", "t", "p">>)
               THEN kept[k].source_url ELSE WOB_ORIGIN \o kept[k].source_url]]

InitCards ==
    /\ retry = withRetryEnter(0, retryDelayMs)
    /\ opLog = <<>>
    /\ IdleCrawl
    /\ robotsConsulted = {}
    /\ tokensAcquired = 0
    /\ now = 0
    /\ limiter = RateLimiterNew
    /\ acquires = <<>>
    /\ sleepers = {}
    /\ returned = 0
    /\ robots = RobotsNew
    /\ sleepMs = 0
    /\ IdleProc
    /\ \E cards \in SeqsUpTo(Cards, MaxCards) :
          probe = [fn |-> "cards", cards |-> cards, done |-> FALSE,
                   threw |-> FALSE, records |-> <<>>]

\* the request handler from $$eval(cardSelector, ...) to products.push(...validProducts)
ExtractCards ==
    /\ probe.fn = "cards" /\ ~probe.done
    /\ probe' = [probe EXCEPT
                   !.done = TRUE,
                   !.records = validProducts([k \in 1..Len(probe.cards) |->
                                                 cardRecord(probe.cards[k])])]
    /\ UNCHANGED probeRest

NextCards == ExtractCards

SpecCards == InitCards /\ [][NextCards]_vars

CardComplete(card) == Trim(card.text) # <<>> /\ card.href # <<>>

\* C31: every record category extraction returns has a non-empty source
\* identifier, a non-empty title and a non-empty source URL; a card yields a
\* record only if both its title and its source URL are non-empty, and the
\* other cards are dropped without an error.
C31_RecordsComplete ==
    (probe.fn = "cards" /\ probe.done) =>
        /\ ~probe.threw
        /\ \A k \in 1..Len(probe.records) :
              /\ probe.records[k].source_id # <<>>
              /\ probe.records[k].title # <<>>
              /\ probe.records[k].source_url # <<>>
        /\ Len(probe.records) =
              Len(SelectSeq(probe.cards, LAMBDA card : CardComplete(card)))

---------------------------------------------------------------------------
(* GET /categories/:slug for one category: concurrent and repeated          *)
(* requests, the category row's last_scraped_at (fresh: less than an hour  *)
(* old), its product count, the response cache and the scrape queue.       *)

Requests == {1, 2}

MaxRequests == 3        \* most getCategory requests made in a behaviour

IdleRequest == [at |-> "idle", isDefaultRequest |-> FALSE]

InitRefresh ==
    /\ retry = withRetryEnter(0, retryDelayMs)
    /\ opLog = <<>>
    /\ IdleCrawl
    /\ robotsConsulted = {}
    /\ tokensAcquired = 0
    /\ now = 0
    /\ limiter = RateLimiterNew
    /\ acquires = <<>>
    /\ sleepers = {}
    /\ returned = 0
    /\ robots = RobotsNew
    /\ sleepMs = 0
    /\ IdleProc
    /\ \E fresh \in BOOLEAN, some \in BOOLEAN :
          probe = [fn |-> "getCategory", fresh |-> fresh, hasProducts |-> some,
                   cached |-> FALSE, queued |-> 0, made |-> 0,
                   req |-> [r \in Requests |-> IdleRequest]]

\* getCategory up to the staleness check: a default request answered from
\* the cache returns at once; otherwise the category and its product count
\* are read and shouldScrape = isStale || hasNoProducts is decided on what
\* was read; a request that need not scrape caches its response and returns
GetCategoryRead(r) ==
    /\ probe.fn = "getCategory"
    /\ probe.req[r].at \in {"idle", "done"}
    /\ probe.made < MaxRequests
    /\ \E def \in BOOLEAN :
          LET shouldScrape == ~probe.fresh \/ ~probe.hasProducts IN
          probe' = [probe EXCEPT
                      !.made = @ + 1,
                      !.cached = IF def /\ ~probe.cached /\ ~shouldScrape THEN TRUE ELSE @,
                      !.req[r] = [at |-> IF def /\ probe.cached THEN "done"
                                         ELSE IF shouldScrape THEN "update" ELSE "done",
                                  isDefaultRequest |-> def]]
    /\ UNCHANGED probeRest

\* await prisma.category.update({ data: { last_scraped_at: new Date() } })
GetCategoryMark(r) ==
    /\ probe.fn = "getCategory"
    /\ probe.req[r].at = "update"
    /\ probe' = [probe EXCEPT !.fresh = TRUE, !.req[r].at = "add"]
    /\ UNCHANGED probeRest

\* await scrapeQueue.add('scrape-category', ...); await cache.delete(cacheKey)
GetCategoryEnqueue(r) ==
    /\ probe.fn = "getCategory"
    /\ probe.req[r].at = "add"
    /\ probe' = [probe EXCEPT !.queued = @ + 1, !.cached = FALSE, !.req[r].at = "done"]
    /\ UNCHANGED probeRest

\* a worker finishes a queued scrape-category job; the batches it saved set
\* product_count and last_scraped_at
RefreshJobEnds ==
    /\ probe.fn = "getCategory"
    /\ probe.queued > 0
    /\ \E saved \in BOOLEAN :
          probe' = [probe EXCEPT !.queued = @ - 1,
                                 !.fresh = IF saved THEN TRUE ELSE @,
                                 !.hasProducts = IF saved THEN TRUE ELSE @]
    /\ UNCHANGED probeRest

NextRefresh ==
    \/ \E r \in Requests : GetCategoryRead(r)
    \/ \E r \in Requests : GetCategoryMark(r)
    \/ \E r \in Requests : GetCategoryEnqueue(r)
    \/ RefreshJobEnds

SpecRefresh == InitRefresh /\ [][NextRefresh]_vars

\* C32: marking a stale category as being refreshed prevents multiple
\* simultaneous scrapes: whatever the interleaving of concurrent or repeated
\* getCategory requests for the category, at most one scrape-category job is
\* enqueued while a refresh of it is pending.
C32_OneRefreshPending ==
    probe.fn = "getCategory" => probe.queued <= 1

---------------------------------------------------------------------------
(* Two workers, each in a 'scrape-category' job of its own, for the same   *)
(* category or for different ones: their progress writes, their            *)
(* completions and the TTL of the snapshots.                               *)

MaxJobPages == 2        \* pages each of the two jobs scrapes

InitJobs ==
    /\ retry = withRetryEnter(0, retryDelayMs)
    /\ opLog = <<>>
    /\ IdleCrawl
    /\ IdleGate
    /\ job \in [Workers -> { JobOf(c, TRUE, FALSE, 0) : c \in CategoryIds }]
    /\ handler = [state |-> "none", value |-> NoResult]
    /\ hb = [w \in Workers |-> IdleBatch]
    /\ store = {}
    /\ category = CategoryRowsOf(store)
    /\ txLog = <<>>
    /\ cache = [k \in CacheKeys |-> NoEntry]
    /\ isConnected = TRUE
    /\ progressLog = <<>>
    /\ clearLog = <<>>
    /\ response = NoResponse
    /\ crashed = FALSE

BetweenBatches(w) == job[w] # NoJob /\ hb[w].state \in {"idle", "settled"}

\* the transaction of the next page of worker w's job has committed
JobBatchCommitted(w) ==
    /\ BetweenBatches(w)
    /\ hb[w].current < MaxJobPages
    /\ hb' = [hb EXCEPT ![w].state = "progress", ![w].current = @ + 1,
                        ![w].total = MaxJobPages]
    /\ UNCHANGED <<progressRest, cacheVars, handler, response, crashed>>

\* the crawl of worker w's job returned: await this.cache.clearScrapeProgress(targetSlug),
\* and the job is over
JobReturns(w) ==
    /\ BetweenBatches(w)
    /\ \E redisOk \in BOOLEAN :
          /\ cache' = clearScrapeProgress(cache, isConnected, redisOk, TargetSlug(job[w]))
          /\ clearLog' = Append(clearLog, [w |-> w, key |-> ProgressKey(TargetSlug(job[w])),
                                           deleted |-> (isConnected /\ redisOk)])
    /\ job' = [job EXCEPT ![w] = NoJob]
    /\ hb' = [hb EXCEPT ![w] = IdleBatch]
    /\ UNCHANGED <<retryVars, crawlVars, gateVars, dbVars, handler, isConnected,
                   progressLog, response, crashed>>

NextJobs ==
    \/ \E w \in Workers : JobBatchCommitted(w)
    \/ \E w \in Workers : OnBatchSetProgress(w)
    \/ \E w \in Workers : JobReturns(w)
    \/ Tick

SpecJobs == InitJobs /\ [][NextJobs]_vars

\* the job whose write the snapshot under key k is
WrittenBy(k) ==
    LET writes == { n \in 1..Len(progressLog) :
                       progressLog[n].key = k /\ progressLog[n].written }
    IN IF writes = {} THEN 0
       ELSE progressLog[CHOOSE n \in writes : \A m \in writes : m <= n].w

Completes(w) == job[w] # NoJob /\ job'[w] = NoJob

\* C38: the progress snapshot of a running category job is removed only by
\* that job's own completion or by TTL expiry: the completion of one job
\* never deletes the snapshot a job still running has written.
C38_OnlyOwnCompletionDeletes ==
    [][\A w \in Workers : \A k \in CacheKeys :
          (Completes(w) /\ cache[k].present /\ ~cache'[k].present)
              => ~(WrittenBy(k) # w /\ job'[WrittenBy(k)] # NoJob)]_vars

=============================================================================
